---- MODULE Spec2Model ----
(***************************************************************************)
(* Workload discovery backend: delta computation, dual-store persistence,  *)
(* persistence-failure reconciliation, the adaptive graph-store paginator, *)
(* the retried GraphQL transport, the ECS task mutex of the initialiser,   *)
(* the account persistence, the discovery pipeline, the projection to the  *)
(* saved object, relationship inference (environment variables, names,    *)
(* VPC information, tags) and the promise pool of the per-resource         *)
(* handlers, as state machines.                                            *)
(***************************************************************************)
EXTENDS Integers, Sequences, FiniteSets, TLC

\* ------------------------------------------------------------------------
\* Bounds of the model
\* ------------------------------------------------------------------------
MaxId == 3

MaxBigId == 11

\* ------------------------------------------------------------------------
\* Program constants
\* ------------------------------------------------------------------------
Nil == -1

UNKNOWN == 0

GLOBAL == 0

AWS == 0

AWS_ECS_TASK == "AWS::ECS::Task"

AWS_EC2_INSTANCE == "AWS::EC2::Instance"

AWS_TAGS_TAG == "AWS::Tags::Tag"

AWS_IAM_ROLE == "AWS::IAM::Role"

AWS_IAM_AWS_MANAGED_POLICY == "AWS::IAM::AWSManagedPolicy"

resourceTypesToHash == {AWS_ECS_TASK, AWS_IAM_AWS_MANAGED_POLICY}

globalResourceTypes == {AWS_IAM_ROLE, AWS_IAM_AWS_MANAGED_POLICY}

Ids == 1..MaxId

\* ------------------------------------------------------------------------
\* Helpers for JavaScript values
\* ------------------------------------------------------------------------
\* obj[k] of a JavaScript object: undefined (Nil) when the key is absent
Get(obj, k) == IF k \in DOMAIN obj THEN obj[k] ELSE Nil

\* a ?? b
Coalesce(a, b) == IF a = Nil THEN b ELSE a

\* the elements of an array as a set
Range(s) == {s[i] : i \in 1..Len(s)}

\* Array.prototype.filter
RECURSIVE FilterSeq(_, _)
FilterSeq(s, keep) ==
    IF s = <<>> THEN <<>>
    ELSE (IF Head(s) \in keep THEN <<Head(s)>> ELSE <<>>) \o FilterSeq(Tail(s), keep)

\* the ids of a set in ascending order (the order in which the arrays of the
\* crawl are built)
RECURSIVE SortedSeq(_)
SortedSeq(S) ==
    IF S = {} THEN <<>>
    ELSE LET m == CHOOSE x \in S : \A y \in S : x <= y
         IN <<m>> \o SortedSeq(S \ {m})

\* R.splitEvery(n, list)
RECURSIVE splitEvery(_, _)
splitEvery(n, list) ==
    IF list = <<>> THEN <<>>
    ELSE IF Len(list) <= n THEN <<list>>
    ELSE <<SubSeq(list, 1, n)>> \o splitEvery(n, SubSeq(list, n + 1, Len(list)))

\* ------------------------------------------------------------------------
\* Relationship labels: relationshipName.trim().toUpperCase().replace(/ /g, '_')
\* Names are sequences of characters.
\* ------------------------------------------------------------------------
toUpperCase(c) == CASE c = "a" -> "A" [] c = "b" -> "B" [] OTHER -> c

RECURSIVE trimStart(_)
trimStart(s) == IF s # <<>> /\ Head(s) = " " THEN trimStart(Tail(s)) ELSE s

RECURSIVE trimEnd(_)
trimEnd(s) ==
    IF s # <<>> /\ s[Len(s)] = " " THEN trimEnd(SubSeq(s, 1, Len(s) - 1)) ELSE s

trim(s) == trimEnd(trimStart(s))

createLabel(relationshipName) ==
    LET t == trim(relationshipName)
    IN [i \in 1..Len(t) |-> IF t[i] = " " THEN "_" ELSE toUpperCase(t[i])]

\* ------------------------------------------------------------------------
\* createResourceAndRelationshipDeltas
\* ------------------------------------------------------------------------
createResourceNameKey(resourceType, resourceName, accountId, awsRegion) ==
    <<resourceType, resourceName, accountId, awsRegion>>

createResourceIdKey(resourceType, resourceId, accountId, awsRegion) ==
    <<resourceType, resourceId, accountId, awsRegion>>

isGlobalResourceType(resourceType) == resourceType \in globalResourceTypes

\* resourcesMap of createLookUpMaps: id -> resource, a later entry of the
\* array replacing an earlier one with the same id
resourcesMapOf(rs) ==
    [id \in {rs[i].id : i \in 1..Len(rs)} |->
        rs[CHOOSE i \in 1..Len(rs) :
              /\ rs[i].id = id
              /\ \A j \in 1..Len(rs) : rs[j].id = id => j <= i]]

\* resourceIdentifierToIdMap of createLookUpMaps, built in array order: for
\* each resource the name key (when it has a name) and then the id key are set
RECURSIVE identifierMapOf(_, _)
identifierMapOf(rs, acc) ==
    IF rs = <<>> THEN acc
    ELSE LET r == Head(rs)
             nameKey == createResourceNameKey(r.resourceType, r.resourceName, r.accountId, r.awsRegion)
             idKey == createResourceIdKey(r.resourceType, r.resourceId, r.accountId, r.awsRegion)
             withName == IF r.resourceName # Nil
                         THEN [k \in DOMAIN acc \cup {nameKey} |->
                                 IF k = nameKey THEN r.id ELSE acc[k]]
                         ELSE acc
             withId == [k \in DOMAIN withName \cup {idKey} |->
                                 IF k = idKey THEN r.id ELSE withName[k]]
         IN identifierMapOf(Tail(rs), withId)

EmptyMap == [k \in {} |-> Nil]

createLookUpMaps(rs) ==
    [resourcesMap |-> resourcesMapOf(rs),
     resourceIdentifierToIdMap |-> identifierMapOf(rs, EmptyMap)]

\* one relationship of a resource projected to a link
createLink(resourceIdentifierToIdMap, resourcesMap, resource, rel) ==
    LET awsRegion == Coalesce(rel.awsRegion,
                        IF isGlobalResourceType(rel.resourceType) THEN GLOBAL
                        ELSE resource.awsRegion)
        accountId == IF rel.resourceType = AWS_IAM_AWS_MANAGED_POLICY THEN AWS
                     ELSE Coalesce(rel.accountId, resource.accountId)
        findId == IF rel.arn # Nil THEN rel.arn
                  ELSE IF rel.resourceId = Nil
                       THEN Get(resourceIdentifierToIdMap,
                                createResourceNameKey(rel.resourceType, rel.resourceName, accountId, awsRegion))
                       ELSE Get(resourceIdentifierToIdMap,
                                createResourceIdKey(rel.resourceType, rel.resourceId, accountId, awsRegion))
        target == IF findId \in DOMAIN resourcesMap THEN resourcesMap[findId].id ELSE UNKNOWN
    IN [source |-> resource.id, target |-> target, label |-> createLabel(rel.relationshipName)]

createLinksFromRelationships(resourceIdentifierToIdMap, resourcesMap, resource) ==
    [i \in 1..Len(resource.relationships) |->
        createLink(resourceIdentifierToIdMap, resourcesMap, resource, resource.relationships[i])]

\* resources.flatMap(createLinksFromRelationships(...))
RECURSIVE flatLinks(_, _, _)
flatLinks(rs, idMap, resMap) ==
    IF rs = <<>> THEN <<>>
    ELSE createLinksFromRelationships(idMap, resMap, Head(rs)) \o flatLinks(Tail(rs), idMap, resMap)

\* new Map(links.map(x => [`${x.source}_${x.label}_${x.target}`, x])): a link
\* is its key (source, label, target), so the values of the map are the
\* distinct links in the order of their first insertion
RECURSIVE linksMapOf(_, _)
linksMapOf(links, acc) ==
    IF links = <<>> THEN acc
    ELSE linksMapOf(Tail(links),
                    IF Head(links) \in Range(acc) THEN acc ELSE Append(acc, Head(links)))

\* a variant that diffs the links without looking at their targets
getLinkChangesWithUnknown(configLinks, dbLinks) ==
    [linksToAdd |->
        FilterSeq(configLinks, {l \in Range(configLinks) : l \notin Range(dbLinks)}),
     linksToDelete |->
        FilterSeq(dbLinks, {l \in Range(dbLinks) : l \notin Range(configLinks)})]

\* A stored link is identified by its key; linksToDelete names the stored
\* links to delete.
getLinkChanges(configLinks, dbLinks) ==
    [linksToAdd |->
        FilterSeq(configLinks, {l \in Range(configLinks) :
                                   l.target # UNKNOWN /\ l \notin Range(dbLinks)}),
     linksToDelete |->
        FilterSeq(dbLinks, {l \in Range(dbLinks) :
                               l.target # UNKNOWN /\ l \notin Range(configLinks)})]

\* a variant that sends every projected property
createUpdateWithAllProperties(dbResourcesMap_, r) ==
    [id |-> r.id, md5Hash |-> r.md5Hash, properties |-> r.properties]

createUpdate(dbResourcesMap_, r) ==
    LET dbProperties == dbResourcesMap_[r.id].properties
    IN [id |-> r.id,
        md5Hash |-> r.md5Hash,
        properties |-> [k \in {k \in DOMAIN r.properties :
                                  Get(dbProperties, k) # r.properties[k]} |-> r.properties[k]]]

typeLabel(resourceType) ==
    CASE resourceType = AWS_ECS_TASK -> "AWS_ECS_Task"
      [] resourceType = AWS_EC2_INSTANCE -> "AWS_EC2_Instance"
      [] resourceType = AWS_TAGS_TAG -> "AWS_Tags_Tag"
      [] resourceType = AWS_IAM_ROLE -> "AWS_IAM_Role"
      [] resourceType = AWS_IAM_AWS_MANAGED_POLICY -> "AWS_IAM_AWSManagedPolicy"
      [] OTHER -> resourceType

createStore(r) ==
    [id |-> r.id, md5Hash |-> r.md5Hash, label |-> typeLabel(r.resourceType),
     properties |-> r.properties]

\* a variant that compares capture times for every resource type
shouldUpdateByCaptureTime(dbResourcesMap_, resource) ==
    IF resource.id \notin DOMAIN dbResourcesMap_ THEN FALSE
    ELSE LET dbResource == dbResourcesMap_[resource.id]
         IN IF /\ Get(dbResource.properties, "supplementaryConfiguration") = Nil
               /\ Get(resource.properties, "supplementaryConfiguration") # Nil
            THEN TRUE
            ELSE /\ resource.resourceType # AWS_TAGS_TAG
                 /\ Get(resource.properties, "configurationItemCaptureTime")
                       # Get(dbResource.properties, "configurationItemCaptureTime")

\* the filter of resourcesToUpdate
shouldUpdate(dbResourcesMap_, resource) ==
    IF resource.id \notin DOMAIN dbResourcesMap_ THEN FALSE
    ELSE LET dbResource == dbResourcesMap_[resource.id]
         IN IF resource.resourceType \in resourceTypesToHash
            THEN resource.md5Hash # dbResource.md5Hash
            ELSE IF /\ Get(dbResource.properties, "supplementaryConfiguration") = Nil
                    /\ Get(resource.properties, "supplementaryConfiguration") # Nil
            THEN TRUE
            ELSE /\ resource.resourceType # AWS_TAGS_TAG
                 /\ Get(resource.properties, "configurationItemCaptureTime")
                       # Get(dbResource.properties, "configurationItemCaptureTime")

\* arrays are kept in the order of the working set (ascending id)
RECURSIVE mapStore(_)
mapStore(rs) == IF rs = <<>> THEN <<>> ELSE <<createStore(Head(rs))>> \o mapStore(Tail(rs))

RECURSIVE mapUpdate(_, _)
mapUpdate(db, rs) ==
    IF rs = <<>> THEN <<>> ELSE <<createUpdate(db, Head(rs))>> \o mapUpdate(db, Tail(rs))

\* a variant that stores nothing new
getResourceChangesWithoutStores(resourcesMap, dbResourcesMap_) ==
    LET rs == [i \in 1..Cardinality(DOMAIN resourcesMap) |->
                  resourcesMap[SortedSeq(DOMAIN resourcesMap)[i]]]
    IN [resourcesToStore |-> <<>>,
        resourcesToUpdate |->
            mapUpdate(dbResourcesMap_, FilterSeq(rs, {r \in Range(rs) : shouldUpdate(dbResourcesMap_, r)})),
        resourceIdsToDelete |->
            SortedSeq({id \in DOMAIN dbResourcesMap_ : id \notin DOMAIN resourcesMap})]

\* the three lists of the resource diff
getResourceChanges(resourcesMap, dbResourcesMap_) ==
    LET rs == [i \in 1..Cardinality(DOMAIN resourcesMap) |->
                  resourcesMap[SortedSeq(DOMAIN resourcesMap)[i]]]
    IN [resourcesToStore |->
            mapStore(FilterSeq(rs, {r \in Range(rs) : r.id \notin DOMAIN dbResourcesMap_})),
        resourcesToUpdate |->
            mapUpdate(dbResourcesMap_, FilterSeq(rs, {r \in Range(rs) : shouldUpdate(dbResourcesMap_, r)})),
        resourceIdsToDelete |->
            SortedSeq({id \in DOMAIN dbResourcesMap_ : id \notin DOMAIN resourcesMap})]

createResourceAndRelationshipDeltas(dbResourcesMap_, dbLinksMap_, rs) ==
    LET maps == createLookUpMaps(rs)
        links == flatLinks(rs, maps.resourceIdentifierToIdMap, maps.resourcesMap)
        configLinksMap == linksMapOf(links, <<>>)
        lc == getLinkChanges(configLinksMap, dbLinksMap_)
        rc == getResourceChanges(maps.resourcesMap, dbResourcesMap_)
    IN [resourceIdsToDelete |-> rc.resourceIdsToDelete,
        resourcesToStore |-> rc.resourcesToStore,
        resourcesToUpdate |-> rc.resourcesToUpdate,
        linksToAdd |-> lc.linksToAdd,
        linksToDelete |-> lc.linksToDelete]


\* ------------------------------------------------------------------------
\* The projected working set
\* ------------------------------------------------------------------------
\* hash(properties): an injective encoding of the property values
hash(properties) ==
    1 + (Get(properties, "configurationItemCaptureTime") + 1)
      + 4 * (Get(properties, "supplementaryConfiguration") + 1)
      + 16 * (Get(properties, "title") + 1)

\* the object createSaveObject yields for a resource with the given id, type,
\* projected properties and relationships
savedResource(id, resourceType, properties, relationships) ==
    [id |-> id, resourceId |-> id, resourceName |-> Nil, resourceType |-> resourceType,
     accountId |-> 1, awsRegion |-> 1,
     md5Hash |-> IF resourceType \in resourceTypesToHash THEN hash(properties) ELSE 0,
     properties |-> properties, relationships |-> relationships]

\* what getDbResourcesMap reads back for a resource stored earlier
storedResource(r) ==
    [id |-> r.id, label |-> typeLabel(r.resourceType), md5Hash |-> r.md5Hash,
     properties |-> r.properties]

\* a relationship that names its target by arn
arnRelationship(target, relationshipName) ==
    [arn |-> target, resourceId |-> Nil, resourceName |-> Nil, resourceType |-> AWS_EC2_INSTANCE,
     relationshipName |-> relationshipName, awsRegion |-> Nil, accountId |-> Nil]

\* ------------------------------------------------------------------------
\* State
\* ------------------------------------------------------------------------
VARIABLES
    pc,              \* position of discoverResources / persistResourcesAndRelationships
    resources,       \* the projected working set (array, ascending id)
    dbResourcesMap,  \* the resources read from the graph store at the start
    dbLinksMap,      \* the links read from the graph store at the start
    deltas,          \* result of createResourceAndRelationshipDeltas
    graphStore,      \* graph store: id -> stored resource
    searchIndex,     \* search index: ids indexed
    graphLinks,      \* graph store: links
    pending,         \* batches of the current phase not yet started
    inflight,        \* batches being processed by the promise pool
    errors,          \* phase -> items of the PromisePoolErrors collected
    calls,           \* history: every mutation call made to the two stores
    failures,        \* {failedDeletes, failedStores}
    reconciled,      \* result of processPersistenceFailures: id -> resource
    previous,        \* history: for each crawl before this one, the phases that collected errors
    \* createPaginator
    pageSize, start, end,
    page,            \* `resources` of the generator: null, or the size of the page read
    pgState,         \* "request" | "yielded" | "done" | "failed" ("idle": no paginator)
    total,           \* number of items the store holds for the query
    last,            \* the window and outcome of the latest request
    reads,           \* history: the latest yielded window and the end of the one before
    \* sendQuery
    attempts,        \* outcomes of the attempts made so far
    inAttempt,       \* an attempt is running or scheduled
    queryName,       \* the GraphQL operation sent
    settled,         \* state of the promise sendQuery returned
    queryError,      \* the error it was rejected with
    \* initialise: the discovery tasks of the cluster
    taskState,       \* task -> "notLaunched" | "initialising" | "crawling" | "exited" | "gone"
    taskDefinitionArn, \* task -> the ARN of its task definition, version included
    seen,            \* task -> number of discovery tasks its inventory probe counted
    touched,         \* task -> it has read or written the stores
    foreign,         \* a task of another task definition runs in the cluster
    thrown,          \* task -> the error discoverResources rejected with ("none": none)
    logged,          \* task -> the level the outcome was logged at
    exitCode,        \* task -> the exit code of its process (Nil while it runs)
    \* getAccounts / persistAccounts
    apc,             \* position: "getAccounts" | "credentials" | "configStatus" | "persist" | "done"
    isUsingOrganizations,
    accountStore,    \* the stored accounts: accountId -> account
    orgAccounts,     \* ids of the active accounts of the organization
    dbAccounts,      \* what appSync.getAccounts() returned
    accounts,        \* the accounts being resolved: accountId -> account
    accountCalls,    \* history: the account mutations sent
    denied,          \* history: the accounts a config probe of which was denied access
    assumed,         \* history: accountId -> what assuming its discovery role gave
    \* getAllSdkResources / addAdditionalRelationships: the phases of the pipeline
    plPhase,         \* the phase discoverResources is in ("idle": no pipeline)
    workingSet,      \* ids of the resources array
    plUnfinished,    \* phase -> its work items that have not finished
    plRunning,       \* phase -> its work items that have begun and not finished
    plResults,       \* resources the handlers of the current tier returned
    firstResults,    \* the resources the first-order handlers returned
    plEarly,         \* history: <<p, q>> when a step of p began with q unfinished
    \* createSaveObject
    raw,             \* a resource as the enrichment phases leave it
    projected,       \* the objects successive applications of createSaveObject gave
    \* discoverResources: from the accounts to the deltas
    accountsMap,     \* the accounts discovered in: accountId -> account, regions by name
    configResources, \* what getAllConfigResources returned (array, ascending id)
    \* createBatchedHandlers.functions
    envPc,           \* "functions" before the handler ran, "done" after ("idle": none)
    envResourceMap,     \* id -> resource, relationships included
    lookUpResources, \* the resources array createLookUpMaps was given
    lambdas,         \* what lambdaClient.getAllFunctions() returned
    \* normaliseRelationshipNames / addVpcInfo
    normPc,          \* "normalise" before the pass over the resource, "done" after
    normResource,    \* a resource of the working set, relationships included
    subnetMap,       \* the subnets of resourceMap: subnetId -> {vpcId, availabilityZone}
    \* createTags
    tagPc,           \* "createTags" before tag synthesis, "done" after ("idle": none)
    taggedResources, \* resourcesCopy: the resources whose tags are read (array)
    tagResources,    \* the tag resources createTags returned (array, insertion order)
    \* addIndividualRelationships: the promise pool over the resources
    stageResources,  \* id -> resource of resourceMap, relationships included
    itemState,       \* id -> "queued" | "schema" | "handler" | "done" of its work item
    writers,         \* history: id -> the work items that pushed onto its relationships
    schemaTypes      \* the resource types that have a schema handler

crawlVars == <<pc, resources, dbResourcesMap, dbLinksMap, deltas, graphStore, searchIndex,
               graphLinks, pending, inflight, errors, calls, failures, reconciled, previous>>

paginatorVars == <<pageSize, start, end, page, pgState, total, last, reads>>

queryVars == <<queryName, attempts, inAttempt, settled, queryError>>

mutexVars == <<taskState, taskDefinitionArn, seen, touched, foreign, thrown, logged, exitCode>>

accountVars == <<apc, isUsingOrganizations, accountStore, orgAccounts, dbAccounts, accounts,
                 accountCalls, denied, assumed>>

pipelineVars == <<plPhase, workingSet, plUnfinished, plRunning, plResults, firstResults, plEarly>>

\* the variables of the parts modelled after the crawl's persistence
projectVars == <<raw, projected>>

discoverVars == <<accountsMap, configResources>>

envVars == <<envPc, envResourceMap, lookUpResources, lambdas>>

normVars == <<normPc, normResource, subnetMap>>

tagVars == <<tagPc, taggedResources, tagResources>>

stageVars == <<stageResources, itemState, writers, schemaTypes>>

extVars == <<pipelineVars, projectVars, discoverVars, envVars, normVars, tagVars, stageVars>>

vars == <<crawlVars, paginatorVars, queryVars, mutexVars, accountVars, extVars>>

nonCrawlVars == <<paginatorVars, queryVars, mutexVars, accountVars, extVars>>

PipelineIdle ==
    /\ plPhase = "idle" /\ workingSet = {} /\ plUnfinished = <<>> /\ plRunning = <<>>
    /\ plResults = {} /\ firstResults = {} /\ plEarly = {}

ProjectIdle == raw = <<>> /\ projected = <<>>

DiscoverIdle == accountsMap = <<>> /\ configResources = <<>>

EnvIdle == envPc = "idle" /\ envResourceMap = <<>> /\ lookUpResources = <<>> /\ lambdas = <<>>

NormIdle == normPc = "idle" /\ normResource = <<>> /\ subnetMap = <<>>

TagIdle == tagPc = "idle" /\ taggedResources = <<>> /\ tagResources = <<>>

StageIdle == stageResources = <<>> /\ itemState = <<>> /\ writers = <<>> /\ schemaTypes = {}

ExtIdle == PipelineIdle /\ ProjectIdle /\ DiscoverIdle /\ EnvIdle /\ NormIdle /\ TagIdle /\ StageIdle

AccountsIdle ==
    /\ apc = "idle" /\ isUsingOrganizations = FALSE /\ accountStore = <<>> /\ orgAccounts = {}
    /\ dbAccounts = <<>> /\ accounts = <<>> /\ accountCalls = {} /\ denied = {}
    /\ assumed = <<>>

MutexIdle ==
    /\ taskState = <<>> /\ taskDefinitionArn = <<>> /\ seen = <<>> /\ touched = <<>>
    /\ foreign = FALSE /\ thrown = <<>> /\ logged = <<>> /\ exitCode = <<>>

NoRequest == [start |-> 0, end |-> 0, outcome |-> "none"]

NoReads == [count |-> 0, prevEnd |-> 0, start |-> 0, end |-> 0]

PaginatorIdle ==
    /\ pageSize = 0 /\ start = 0 /\ end = 0 /\ page = Nil /\ pgState = "idle"
    /\ total = 0 /\ last = NoRequest /\ reads = NoReads

QueryIdle ==
    /\ queryName = "none" /\ attempts = <<>> /\ inAttempt = FALSE /\ settled = "idle"
    /\ queryError = "none"

CrawlIdle ==
    /\ pc = "idle" /\ resources = <<>> /\ dbResourcesMap = <<>> /\ dbLinksMap = <<>>
    /\ deltas = <<>> /\ graphStore = <<>> /\ searchIndex = {} /\ graphLinks = {}
    /\ pending = <<>> /\ inflight = {} /\ errors = <<>> /\ calls = {}
    /\ failures = <<>> /\ reconciled = <<>> /\ previous = <<>>

ResourcePhases == {"deleteResources", "updateResources", "storeResources"}

LinkPhases == {"deleteRelationships", "storeRelationships"}

Phases == ResourcePhases \cup LinkPhases

\* persistResourcesAndRelationships: {concurrency, batchSize} of each phase
concurrency(phase) ==
    CASE phase = "deleteResources" -> 5
      [] phase = "updateResources" -> 10
      [] phase = "storeResources" -> 10
      [] phase = "deleteRelationships" -> 5
      [] phase = "storeRelationships" -> 10

batchSize(phase) ==
    CASE phase = "deleteResources" -> 50
      [] phase = "updateResources" -> 10
      [] phase = "storeResources" -> 10
      [] phase = "deleteRelationships" -> 50
      [] phase = "storeRelationships" -> 20

\* the list each phase is given
phaseInput(phase, d) ==
    CASE phase = "deleteResources" -> d.resourceIdsToDelete
      [] phase = "updateResources" -> d.resourcesToUpdate
      [] phase = "storeResources" -> d.resourcesToStore
      [] phase = "deleteRelationships" -> d.linksToDelete
      [] phase = "storeRelationships" -> d.linksToAdd

nextPhase(phase) ==
    CASE phase = "deleteResources" -> "updateResources"
      [] phase = "updateResources" -> "storeResources"
      [] phase = "storeResources" -> "deleteRelationships"
      [] phase = "deleteRelationships" -> "storeRelationships"

\* x.id ?? x : the items of a delete batch are ids, the others carry an id
itemId(phase, x) == IF phase = "deleteResources" THEN x ELSE x.id

batchIds(phase, batch) == {itemId(phase, batch[i]) : i \in 1..Len(batch)}

NoDeltas == [resourceIdsToDelete |-> <<>>, resourcesToStore |-> <<>>, resourcesToUpdate |-> <<>>,
             linksToAdd |-> <<>>, linksToDelete |-> <<>>]

NoFailures == [failedDeletes |-> <<>>, failedStores |-> <<>>]


\* ------------------------------------------------------------------------
\* Initial states of a crawl: a projected working set and the content of the
\* stores left by earlier crawls
\* ------------------------------------------------------------------------
typeOfId(i) == IF i % 2 = 1 THEN AWS_ECS_TASK ELSE AWS_EC2_INSTANCE

\* the projected properties of a resource in its v-th observed configuration
versionProperties(resourceType, v) ==
    IF resourceType \in resourceTypesToHash
    THEN [title |-> v]
    ELSE [configurationItemCaptureTime |-> v, title |-> 1]

nextId(i) == (i % MaxId) + 1

relName == <<"a", " ", "b">>

crawlResource(i, v, withRel) ==
    savedResource(i, typeOfId(i), versionProperties(typeOfId(i), v),
                  IF withRel THEN <<arnRelationship(nextId(i), relName)>> ELSE <<>>)

link(source, target) == [source |-> source, label |-> createLabel(relName), target |-> target]

\* links an earlier crawl may have left in the graph store
dbLinkCandidates == <<link(1, 2), link(2, 1), link(1, UNKNOWN)>>

InitStores(rs, db, links) ==
    /\ pc = "start"
    /\ resources = rs
    /\ dbResourcesMap = db
    /\ dbLinksMap = links
    /\ deltas = NoDeltas
    /\ graphStore = db
    /\ searchIndex = DOMAIN db
    /\ graphLinks = Range(links)
    /\ pending = <<>>
    /\ inflight = {}
    /\ errors = [ph \in Phases |-> {}]
    /\ calls = {}
    /\ failures = NoFailures
    /\ reconciled = EmptyMap
    /\ previous = <<>>
    /\ PaginatorIdle
    /\ QueryIdle
    /\ MutexIdle
    /\ AccountsIdle
    /\ ExtIdle

Init ==
    \E f \in [Ids -> 0..2], g \in [Ids -> BOOLEAN], D \in SUBSET Ids,
       keep \in SUBSET Range(dbLinkCandidates) :
        /\ \A i \in Ids : g[i] => (f[i] # 0 /\ i <= 2)
        /\ \A l \in keep : l.source \in D /\ (l.target = UNKNOWN \/ l.target \in D)
        /\ InitStores(
              [k \in 1..Cardinality({i \in Ids : f[i] # 0}) |->
                  LET i == SortedSeq({j \in Ids : f[j] # 0})[k]
                  IN crawlResource(i, f[i], g[i])],
              [i \in D |-> storedResource(crawlResource(i, 1, FALSE))],
              FilterSeq(dbLinkCandidates, keep))

\* ------------------------------------------------------------------------
\* discoverResources: delta, persistence, reconciliation
\* ------------------------------------------------------------------------
\* .then(createResourceAndRelationshipDeltas(dbResourcesMap, dbLinksMap)) and
\* the entry of persistResourcesAndRelationships
ComputeDeltas ==
    /\ pc = "start"
    /\ deltas' = createResourceAndRelationshipDeltas(dbResourcesMap, dbLinksMap, resources)
    /\ pc' = "deleteResources"
    /\ pending' = splitEvery(batchSize("deleteResources"), deltas'.resourceIdsToDelete)
    /\ UNCHANGED <<resources, dbResourcesMap, dbLinksMap, graphStore, searchIndex, graphLinks,
                   inflight, errors, calls, failures, reconciled>>
    /\ UNCHANGED <<previous, nonCrawlVars>>

\* the promise pool of process() hands the next batch to a free worker
StartBatch ==
    /\ pc \in Phases
    /\ pending # <<>>
    /\ Cardinality(inflight) < concurrency(pc)
    /\ inflight' = inflight \cup {[batch |-> Head(pending),
                                   stage |-> IF pc \in ResourcePhases THEN "search" ELSE "links",
                                   unprocessed |-> {}]}
    /\ pending' = Tail(pending)
    /\ UNCHANGED <<pc, resources, dbResourcesMap, dbLinksMap, deltas, graphStore, searchIndex,
                   graphLinks, errors, calls, failures, reconciled>>
    /\ UNCHANGED <<previous, nonCrawlVars>>

\* Mutations may fail in the first crawl; the crawl that follows it is the one
\* in which every mutation succeeds.
mayFail == previous = <<>>

\* effect of an accepted search-index mutation
searchApply(phase, index, ids) ==
    CASE phase = "storeResources" -> index \cup ids
      [] phase = "deleteResources" -> index \ ids
      [] phase = "updateResources" -> index

\* createResourceProcessor: await openSearchMutation(resources); the index
\* reports some of the batch as unprocessed, or the request fails
SearchMutation ==
    /\ pc \in ResourcePhases
    /\ \E t \in inflight :
        /\ t.stage = "search"
        /\ \/ \E U \in (IF mayFail THEN SUBSET batchIds(pc, t.batch) ELSE {{}}) :
                /\ searchIndex' = searchApply(pc, searchIndex, batchIds(pc, t.batch) \ U)
                /\ inflight' = (inflight \ {t}) \cup {[t EXCEPT !.stage = "graph", !.unprocessed = U]}
                /\ calls' = calls \cup {[phase |-> pc, op |-> "search", batch |-> batchIds(pc, t.batch),
                                         items |-> batchIds(pc, t.batch), unprocessed |-> U,
                                         result |-> "ok"]}
                /\ UNCHANGED errors
           \/ /\ mayFail
              /\ errors' = [errors EXCEPT ![pc] = @ \cup {t.batch}]
              /\ inflight' = inflight \ {t}
              /\ calls' = calls \cup {[phase |-> pc, op |-> "search", batch |-> batchIds(pc, t.batch),
                                       items |-> batchIds(pc, t.batch), unprocessed |-> {},
                                       result |-> "error"]}
              /\ UNCHANGED searchIndex
    /\ UNCHANGED <<pc, resources, dbResourcesMap, dbLinksMap, deltas, graphStore, graphLinks,
                   pending, failures, reconciled>>
    /\ UNCHANGED <<previous, nonCrawlVars>>

\* R.partition(x => unprocessedSet.has(x.id ?? x), resources)
unprocessedResources(phase, t) ==
    FilterSeq(t.batch, {x \in Range(t.batch) : itemId(phase, x) \in t.unprocessed})

\* a variant that sends the whole batch on to the graph store
wholeBatch(phase, t) == t.batch

\* the other half of the partition
processedResources(phase, t) ==
    FilterSeq(t.batch, {x \in Range(t.batch) : itemId(phase, x) \notin t.unprocessed})

\* effect of a graph-store mutation on the stored resources
graphApply(phase, store, items) ==
    CASE phase = "storeResources" ->
            [id \in DOMAIN store \cup {x.id : x \in Range(items)} |->
                IF \E x \in Range(items) : x.id = id
                THEN CHOOSE x \in Range(items) : x.id = id
                ELSE store[id]]
      [] phase = "deleteResources" ->
            [id \in DOMAIN store \ Range(items) |-> store[id]]
      [] phase = "updateResources" ->
            [id \in DOMAIN store |->
                IF \E x \in Range(items) : x.id = id
                THEN LET x == CHOOSE y \in Range(items) : y.id = id
                     IN [store[id] EXCEPT
                           !.md5Hash = x.md5Hash,
                           !.properties = [k \in DOMAIN store[id].properties \cup DOMAIN x.properties |->
                                              IF k \in DOMAIN x.properties THEN x.properties[k]
                                              ELSE store[id].properties[k]]]
                ELSE store[id]]

\* createResourceProcessor: await neptuneMutation(processedResources), then
\* throw UnprocessedOpenSearchResourcesError(unprocessedResources) if any;
\* process().handleError collects error.failures or, for any other error,
\* the whole batch
GraphMutation ==
    /\ pc \in ResourcePhases
    /\ \E t \in inflight :
        /\ t.stage = "graph"
        /\ \/ /\ graphStore' = graphApply(pc, graphStore, processedResources(pc, t))
              /\ errors' = IF unprocessedResources(pc, t) # <<>>
                           THEN [errors EXCEPT ![pc] = @ \cup {unprocessedResources(pc, t)}]
                           ELSE errors
              /\ calls' = calls \cup {[phase |-> pc, op |-> "graph", batch |-> batchIds(pc, t.batch),
                                       items |-> batchIds(pc, processedResources(pc, t)),
                                       unprocessed |-> {}, result |-> "ok"]}
           \/ /\ mayFail
              /\ errors' = [errors EXCEPT ![pc] = @ \cup {t.batch}]
              /\ calls' = calls \cup {[phase |-> pc, op |-> "graph", batch |-> batchIds(pc, t.batch),
                                       items |-> batchIds(pc, processedResources(pc, t)),
                                       unprocessed |-> {}, result |-> "error"]}
              /\ UNCHANGED graphStore
        /\ inflight' = inflight \ {t}
    /\ UNCHANGED <<pc, resources, dbResourcesMap, dbLinksMap, deltas, searchIndex, graphLinks,
                   pending, failures, reconciled>>
    /\ UNCHANGED <<previous, nonCrawlVars>>

\* deleteRelationships / storeRelationships: one graph-store mutation a batch
RelationshipMutation ==
    /\ pc \in LinkPhases
    /\ \E t \in inflight :
        /\ t.stage = "links"
        /\ \/ /\ graphLinks' = IF pc = "storeRelationships" THEN graphLinks \cup Range(t.batch)
                               ELSE graphLinks \ Range(t.batch)
              /\ UNCHANGED errors
           \/ /\ mayFail
              /\ errors' = [errors EXCEPT ![pc] = @ \cup {t.batch}]
              /\ UNCHANGED graphLinks
        /\ inflight' = inflight \ {t}
    /\ UNCHANGED <<pc, resources, dbResourcesMap, dbLinksMap, deltas, graphStore, searchIndex,
                   pending, calls, failures, reconciled>>
    /\ UNCHANGED <<previous, nonCrawlVars>>

\* the await of one phase returns and the next phase is started
PhaseDone ==
    /\ pc \in Phases \ {"storeRelationships"}
    /\ pending = <<>>
    /\ inflight = {}
    /\ pc' = nextPhase(pc)
    /\ pending' = splitEvery(batchSize(nextPhase(pc)), phaseInput(nextPhase(pc), deltas))
    /\ UNCHANGED <<resources, dbResourcesMap, dbLinksMap, deltas, graphStore, searchIndex,
                   graphLinks, inflight, errors, calls, failures, reconciled>>
    /\ UNCHANGED <<previous, nonCrawlVars>>

\* errors.flatMap(x => x.item)
RECURSIVE flatMapItems(_)
flatMapItems(S) ==
    IF S = {} THEN <<>>
    ELSE LET x == CHOOSE y \in S : TRUE IN x \o flatMapItems(S \ {x})

\* a variant that reports the failed updates as failedStores
persistenceFailuresOfUpdates(errs) ==
    [failedDeletes |-> flatMapItems(errs["deleteResources"]),
     failedStores |-> [i \in 1..Len(flatMapItems(errs["updateResources"])) |->
                          flatMapItems(errs["updateResources"])[i].id]]

\* the value persistResourcesAndRelationships returns
persistenceFailures(errs) ==
    [failedDeletes |-> flatMapItems(errs["deleteResources"]),
     failedStores |-> [i \in 1..Len(flatMapItems(errs["storeResources"])) |->
                          flatMapItems(errs["storeResources"])[i].id]]

\* a variant that leaves the failed deletes out
withoutFailedDeletes(dbResourcesMap_, rs, fs) ==
    LET resourceMap == resourcesMapOf(rs)
    IN [id \in DOMAIN resourceMap \ Range(fs.failedStores) |-> resourceMap[id]]

\* resources without failedStores, then failedDeletes put back with the
\* value read from the store before the crawl
processPersistenceFailures(dbResourcesMap_, rs, fs) ==
    LET resourceMap == resourcesMapOf(rs)
        afterStores == [id \in DOMAIN resourceMap \ Range(fs.failedStores) |-> resourceMap[id]]
    IN [id \in DOMAIN afterStores \cup Range(fs.failedDeletes) |->
           IF id \in Range(fs.failedDeletes) THEN Get(dbResourcesMap_, id) ELSE afterStores[id]]

\* persistResourcesAndRelationships returns and
\* .then(processPersistenceFailures(dbResourcesMap, resources)) runs
ProcessPersistenceFailures ==
    /\ pc = "storeRelationships"
    /\ pending = <<>>
    /\ inflight = {}
    /\ failures' = persistenceFailures(errors)
    /\ reconciled' = processPersistenceFailures(dbResourcesMap, resources, failures')
    /\ pc' = "done"
    /\ UNCHANGED <<resources, dbResourcesMap, dbLinksMap, deltas, graphStore, searchIndex,
                   graphLinks, pending, inflight, errors, calls>>
    /\ UNCHANGED <<previous, nonCrawlVars>>

\* a variant that reads no relationship
getNoDbRelationships(links) == <<>>

\* the relationships getDbRelationshipsMap reads from the graph store
RECURSIVE getDbRelationshipsMap(_)
getDbRelationshipsMap(links) ==
    IF links = {} THEN <<>>
    ELSE LET l == CHOOSE x \in links : TRUE
         IN <<[source |-> l.source, label |-> l.label, target |-> l.target]>>
                \o getDbRelationshipsMap(links \ {l})

\* The next run of discoverResources after a crawl that ended: the stores are
\* read again, the aggregator returns the same resources, and the deltas are
\* computed from what the stores hold now.
DiscoverAgain ==
    /\ pc = "done"
    /\ previous = <<>>
    /\ previous' = <<{ph \in Phases : errors[ph] # {}}>>
    /\ dbLinksMap' = getDbRelationshipsMap(graphLinks)
    /\ dbResourcesMap' = graphStore
    /\ pc' = "start"
    /\ deltas' = NoDeltas
    /\ pending' = <<>>
    /\ errors' = [ph \in Phases |-> {}]
    /\ calls' = {}
    /\ failures' = NoFailures
    /\ reconciled' = EmptyMap
    /\ UNCHANGED <<resources, graphStore, searchIndex, graphLinks, inflight>>
    /\ UNCHANGED nonCrawlVars

\* A crawl that finds a full store batch or more (up to MaxBigId) new resources (more than one
\* store batch when above the batch size), one stale stored resource and one
\* new link
InitBig ==
    \E n \in batchSize("storeResources")..MaxBigId :
        InitStores(
            [i \in 1..n |-> savedResource(i, typeOfId(i), versionProperties(typeOfId(i), 1),
                                IF i = 1 THEN <<arnRelationship(2, relName)>> ELSE <<>>)],
            [i \in {n + 1} |-> storedResource(savedResource(i, typeOfId(i),
                                                  versionProperties(typeOfId(i), 1), <<>>))],
            <<>>)

\* ------------------------------------------------------------------------
\* Inputs of the delta computation alone
\* ------------------------------------------------------------------------
\* projected properties with the given capture time and supplementary
\* configuration (Nil: the key is absent)
propertiesOf(captureTime, supplementaryConfiguration) ==
    [k \in {"title"}
            \cup (IF captureTime = Nil THEN {} ELSE {"configurationItemCaptureTime"})
            \cup (IF supplementaryConfiguration = Nil THEN {} ELSE {"supplementaryConfiguration"}) |->
        CASE k = "title" -> 1
          [] k = "configurationItemCaptureTime" -> captureTime
          [] k = "supplementaryConfiguration" -> supplementaryConfiguration]

simpleResource(i) == savedResource(i, typeOfId(i), versionProperties(typeOfId(i), 1), <<>>)

\* a resource of the array replaced
withResource(rs, r) == [k \in 1..Len(rs) |-> IF rs[k].id = r.id THEN r ELSE rs[k]]

presentSeq(W) == [k \in 1..Cardinality(W) |-> simpleResource(SortedSeq(W)[k])]

\* Resource 1 in any type, capture time and supplementary configuration, its
\* stored copy with any of these and a hash equal to or different from the
\* current one; the other resources present or absent on either side.
InitDeltaResources ==
    \E W \in SUBSET Ids, D \in SUBSET Ids,
       type \in {AWS_ECS_TASK, AWS_EC2_INSTANCE, AWS_TAGS_TAG},
       ct \in {Nil, 1, 2}, sc \in {Nil, 1}, dbCt \in {Nil, 1}, dbSc \in {Nil, 1},
       sameHash \in BOOLEAN :
        LET r1 == savedResource(1, type, propertiesOf(ct, sc), <<>>)
            db1 == [id |-> 1, label |-> typeLabel(type),
                    md5Hash |-> IF sameHash THEN r1.md5Hash ELSE r1.md5Hash + 1,
                    properties |-> propertiesOf(dbCt, dbSc)]
        IN /\ 1 \in W
           /\ 1 \notin D => (dbCt = Nil /\ dbSc = Nil /\ sameHash)
           /\ InitStores(withResource(presentSeq(W), r1),
                         [i \in D |-> IF i = 1 THEN db1 ELSE storedResource(simpleResource(i))],
                         <<>>)

\* the ways a relationship names its target
relationshipChoices ==
    {[arn |-> a, resourceId |-> Nil, resourceName |-> Nil, resourceType |-> AWS_EC2_INSTANCE,
      relationshipName |-> n, awsRegion |-> Nil, accountId |-> Nil] :
        a \in 1..(MaxId + 1), n \in {relName, <<"A", "_", "B">>, <<" ", "b">>}}
    \cup
    {[arn |-> Nil, resourceId |-> rid, resourceName |-> rn, resourceType |-> t,
      relationshipName |-> relName, awsRegion |-> reg, accountId |-> Nil] :
        rid \in {Nil, 2}, rn \in {Nil, 2 + MaxId}, t \in {AWS_EC2_INSTANCE, AWS_IAM_ROLE},
        reg \in {Nil, 1, 2}}

deltaLinkCandidates == <<link(1, 2), link(2, 1), link(1, UNKNOWN)>>

\* Resource 1 with at most one relationship of any shape, resource 2 (named)
\* with or without a relationship to resource 1, any stored links.
InitDeltaLinks ==
    \E W \in SUBSET Ids, rels \in {<<>>} \cup {<<x>> : x \in relationshipChoices},
       back \in BOOLEAN, keep \in SUBSET Range(deltaLinkCandidates) :
        LET r1 == [simpleResource(1) EXCEPT !.relationships = rels]
            r2 == [simpleResource(2) EXCEPT
                     !.resourceName = 2 + MaxId,
                     !.relationships = IF back THEN <<arnRelationship(1, relName)>> ELSE <<>>]
        IN /\ 1 \in W
           /\ back => 2 \in W
           /\ InitStores(withResource(withResource(presentSeq(W), r1), r2),
                         [i \in Ids |-> storedResource(simpleResource(i))],
                         FilterSeq(deltaLinkCandidates, keep))

InitDelta == InitDeltaResources \/ InitDeltaLinks

NextDelta == ComputeDeltas

Next ==
    \/ ComputeDeltas
    \/ StartBatch
    \/ SearchMutation
    \/ GraphMutation
    \/ RelationshipMutation
    \/ PhaseDone
    \/ ProcessPersistenceFailures

Spec == Init /\ [][Next]_vars


SpecBig == InitBig /\ [][Next]_vars

\* the graph store holds no link the program could not have written
InitRepair == Init /\ \A l \in Range(dbLinksMap) : l.target # UNKNOWN

NextRepair == Next \/ DiscoverAgain

SpecRepair == InitRepair /\ [][NextRepair]_vars

SpecDelta == InitDelta /\ [][NextDelta]_vars

\* ------------------------------------------------------------------------
\* createPaginator(operation, PAGE_SIZE)
\* ------------------------------------------------------------------------
PAGE_SIZE == 1000

MaxChunks == 6

\* the operation's answer for a window: the items at offsets start..end-1
windowItems(s, e, n) ==
    IF e <= s \/ n <= s THEN 0 ELSE (IF e < n THEN e ELSE n) - s

\* a variant that replays with the same page size
sameSize(p) == p

\* a variant that shrinks the page by one
decremented(p) == p - 1

\* pageSize = Math.floor(pageSize / 2)
halved(p) == p \div 2

\* a variant that moves on by the configured page size
nextStartByDefault(s, p) == s + PAGE_SIZE

\* start = start + pageSize
nextStart(s, p) == s + p

InitPaginator ==
    /\ pageSize = PAGE_SIZE
    /\ start = 0
    /\ end = PAGE_SIZE
    /\ page = Nil
    /\ pgState = "request"
    /\ total \in {k * (PAGE_SIZE \div 4) : k \in 0..MaxChunks} \cup {1}
    /\ last = NoRequest
    /\ reads = NoReads
    /\ CrawlIdle
    /\ QueryIdle
    /\ MutexIdle
    /\ AccountsIdle
    /\ ExtIdle

\* resources = await operation({pagination: {start, end}, ...args}) resolves
\* and the page is yielded
FetchPage ==
    /\ pgState = "request"
    /\ page' = windowItems(start, end, total)
    /\ pgState' = "yielded"
    /\ last' = [start |-> start, end |-> end, outcome |-> "ok"]
    /\ reads' = [count |-> IF reads.count = 0 THEN 1 ELSE 2, prevEnd |-> reads.end,
                 start |-> start, end |-> end]
    /\ UNCHANGED <<pageSize, start, end, total>>
    /\ UNCHANGED <<crawlVars, queryVars, mutexVars, accountVars, extVars>>

\* the operation rejects with one of the two size errors (the answer for a
\* window that holds items was too large): halve and replay
SizeError ==
    /\ pgState = "request"
    /\ windowItems(start, end, total) > 0
    /\ \E err \in {"payloadTooLarge", "resolverCodeSize"} :
          last' = [start |-> start, end |-> end, outcome |-> err]
    /\ pageSize' = halved(pageSize)
    /\ end' = start + pageSize'
    /\ UNCHANGED <<start, page, pgState, total, reads>>
    /\ UNCHANGED <<crawlVars, queryVars, mutexVars, accountVars, extVars>>

\* the operation rejects with any other error, which the generator rethrows
OtherError ==
    /\ pgState = "request"
    /\ pgState' = "failed"
    /\ last' = [start |-> start, end |-> end, outcome |-> "otherError"]
    /\ UNCHANGED <<pageSize, start, end, page, total, reads>>
    /\ UNCHANGED <<crawlVars, queryVars, mutexVars, accountVars, extVars>>

\* the consumer asks for the next page: the generator resumes after the yield
Advance ==
    /\ pgState = "yielded"
    /\ start' = nextStart(start, pageSize)
    /\ pageSize' = PAGE_SIZE
    /\ end' = end + pageSize'
    /\ pgState' = IF page = 0 THEN "done" ELSE "request"
    /\ UNCHANGED <<page, total, last, reads>>
    /\ UNCHANGED <<crawlVars, queryVars, mutexVars, accountVars, extVars>>

NextPaginator == FetchPage \/ SizeError \/ OtherError \/ Advance

SpecPaginator == InitPaginator /\ [][NextPaginator]_vars

\* ------------------------------------------------------------------------
\* sendQuery: the request under async-retry
\* ------------------------------------------------------------------------
retries == 3

\* what one attempt can end with
attemptOutcomes ==
    {"ok", "connectionClosedPrematurely", "resolverCodeSize", "payloadTooLarge",
     "otherErrors", "requestError"}

\* a variant that does not bail on the two size errors
bailOutcomesWithoutSizeErrors == {"otherErrors", "requestError"}

\* outcomes for which the attempt calls bail(err)
bailOutcomes == {"resolverCodeSize", "payloadTooLarge", "otherErrors", "requestError"}

\* outcomes for which the attempt function throws (into the retry layer): the
\* connection-closed error, and the TypeError of destructuring the undefined
\* the catch handler of a failed request returns
throwOutcomes == {"connectionClosedPrematurely", "requestError"}

\* a variant that gives up after one retry
retryOnce(made) == made < 2

\* op.retry(err): another attempt is scheduled while fewer than retries + 1
\* attempts have been made
retryAgain(made) == made < retries + 1

InitQuery ==
    /\ queryName \in {"getResources", "addResources"}
    /\ attempts = <<>>
    /\ inAttempt = TRUE
    /\ settled = "pending"
    /\ queryError = "none"
    /\ CrawlIdle
    /\ PaginatorIdle
    /\ MutexIdle
    /\ AccountsIdle
    /\ ExtIdle

\* one run of the function given to retry() ends
Attempt ==
    /\ inAttempt
    /\ \E o \in attemptOutcomes :
        LET made == Len(attempts) + 1
            again == o \in throwOutcomes /\ retryAgain(made)
            rejects == o \in bailOutcomes \/ (o \in throwOutcomes /\ ~retryAgain(made))
        IN /\ attempts' = Append(attempts, o)
           /\ inAttempt' = again
           /\ settled' = IF settled # "pending" THEN settled
                          ELSE IF rejects THEN "rejected"
                          ELSE IF o = "ok" THEN "resolved"
                          ELSE "pending"
           /\ queryError' = IF settled = "pending" /\ rejects THEN o ELSE queryError
    /\ UNCHANGED queryName
    /\ UNCHANGED <<crawlVars, paginatorVars, mutexVars, accountVars, extVars>>

NextQuery == Attempt

SpecQuery == InitQuery /\ [][NextQuery]_vars

\* ------------------------------------------------------------------------
\* initialise: the check for another running discovery task
\* ------------------------------------------------------------------------
MaxTasks == 2

MaxVersion == 2

Tasks == 1..MaxTasks

DISCOVERY_PROCESS_RUNNING == "Discovery process ECS task is already running in cluster."

WORKLOAD_DISCOVERY_TASKGROUP == "task-definition/workload-discovery-taskgroup"

\* An ARN is the sequence of its colon-separated parts; the ARN of a task's
\* definition ends with the version.
expectedTaskDefinitionArn == <<"arn:aws:ecs:region:account", WORKLOAD_DISCOVERY_TASKGROUP>>

\* arn.slice(0, arn.lastIndexOf(':'))
stripVersion(arn) == SubSeq(arn, 1, Len(arn) - 1)

\* getAllClusterTasks: the ARNs of the task definitions of the cluster's
\* tasks, one entry a task (a task is listed from its launch until the
\* scheduler has taken it out after its exit)
clusterTasks ==
    [t \in {u \in Tasks : taskState[u] \in {"initialising", "crawling", "exited"}}
            \cup (IF foreign THEN {0} ELSE {}) |->
        IF t = 0 THEN <<"arn:aws:ecs:region:account", "task-definition/other", 1>>
        ELSE taskDefinitionArn[t]]

\* a variant that compares the arn with its version
discoveryTasksOfVersion(tasks, arn) == {t \in DOMAIN tasks : tasks[t] = arn}

\* the filter of isDiscoveryEcsTaskRunning
discoveryTasks(tasks, arn) == {t \in DOMAIN tasks : stripVersion(tasks[t]) = arn}

isDiscoveryEcsTaskRunning(tasks, arn) == Cardinality(discoveryTasks(tasks, arn)) > 1

InitMutex ==
    /\ taskState = [t \in Tasks |-> "notLaunched"]
    /\ taskDefinitionArn \in [Tasks -> {Append(expectedTaskDefinitionArn, v) : v \in 1..MaxVersion}]
    /\ seen = [t \in Tasks |-> Nil]
    /\ touched = [t \in Tasks |-> FALSE]
    /\ foreign \in BOOLEAN
    /\ thrown = [t \in Tasks |-> "none"]
    /\ logged = [t \in Tasks |-> "none"]
    /\ exitCode = [t \in Tasks |-> Nil]
    /\ CrawlIdle
    /\ PaginatorIdle
    /\ QueryIdle
    /\ AccountsIdle
    /\ ExtIdle

\* the errors that reach the catch of discover(): the two the entry point
\* names and any other
fatalErrors == {"AggregatorNotFoundError", "OrgAggregatorValidationError", "Error"}

\* discoverResources(...).catch: the sentinel is logged and swallowed, any
\* other error is thrown on ("none": discover() resolves)
discoverCatch(err) == IF err = DISCOVERY_PROCESS_RUNNING THEN "none" ELSE err

\* the level the outcome is logged at
logLevel(err) ==
    IF err = "none" THEN "none" ELSE IF err = DISCOVERY_PROCESS_RUNNING THEN "info" ELSE "error"

\* a variant that exits with 1 whenever discoverResources rejected
processExitCodeOfAnyError(err) == IF err = "none" THEN 0 ELSE 1

\* discover().catch(... process.exit(1)); a process whose discover() resolves
\* ends with code 0
processExitCode(err) == IF discoverCatch(err) = "none" THEN 0 ELSE 1

\* the process of task t ends, discoverResources having rejected with err
exits(t, err) ==
    /\ taskState' = [taskState EXCEPT ![t] = "exited"]
    /\ thrown' = [thrown EXCEPT ![t] = err]
    /\ logged' = [logged EXCEPT ![t] = logLevel(err)]
    /\ exitCode' = [exitCode EXCEPT ![t] = processExitCode(err)]

\* the scheduler launches an instance of the discovery task
Launch(t) ==
    /\ taskState[t] = "notLaunched"
    /\ taskState' = [taskState EXCEPT ![t] = "initialising"]
    /\ UNCHANGED <<taskDefinitionArn, seen, touched, foreign, thrown, logged, exitCode>>
    /\ UNCHANGED <<crawlVars, paginatorVars, queryVars, accountVars, extVars>>

\* initialise fails before the inventory check (VPC validation, credentials)
InitialiseFails(t) ==
    /\ taskState[t] = "initialising"
    /\ seen[t] = Nil
    /\ \E err \in fatalErrors : exits(t, err)
    /\ UNCHANGED <<taskDefinitionArn, seen, touched, foreign>>
    /\ UNCHANGED <<crawlVars, paginatorVars, queryVars, accountVars, extVars>>

\* if (await isDiscoveryEcsTaskRunning(...)) throw new Error(DISCOVERY_PROCESS_RUNNING)
InventoryCheck(t) ==
    /\ taskState[t] = "initialising"
    /\ seen' = [seen EXCEPT ![t] = Cardinality(discoveryTasks(clusterTasks, expectedTaskDefinitionArn))]
    /\ IF isDiscoveryEcsTaskRunning(clusterTasks, expectedTaskDefinitionArn)
       THEN exits(t, DISCOVERY_PROCESS_RUNNING)
       ELSE /\ taskState' = [taskState EXCEPT ![t] = "crawling"]
            /\ UNCHANGED <<thrown, logged, exitCode>>
    /\ UNCHANGED <<taskDefinitionArn, touched, foreign>>
    /\ UNCHANGED <<crawlVars, paginatorVars, queryVars, accountVars, extVars>>

\* discoverResources goes on after initialise: it reads and writes the stores
AccessStores(t) ==
    /\ taskState[t] = "crawling"
    /\ ~touched[t]
    /\ touched' = [touched EXCEPT ![t] = TRUE]
    /\ UNCHANGED <<taskState, taskDefinitionArn, seen, foreign, thrown, logged, exitCode>>
    /\ UNCHANGED <<crawlVars, paginatorVars, queryVars, accountVars, extVars>>

\* the crawl ends (with or without an error) and the process exits
Finish(t) ==
    /\ taskState[t] = "crawling"
    /\ \E err \in {"none"} \cup fatalErrors : exits(t, err)
    /\ UNCHANGED <<taskDefinitionArn, seen, touched, foreign>>
    /\ UNCHANGED <<crawlVars, paginatorVars, queryVars, accountVars, extVars>>

\* the scheduler takes an exited task out of its inventory
Deregister(t) ==
    /\ taskState[t] = "exited"
    /\ taskState' = [taskState EXCEPT ![t] = "gone"]
    /\ UNCHANGED <<taskDefinitionArn, seen, touched, foreign, thrown, logged, exitCode>>
    /\ UNCHANGED <<crawlVars, paginatorVars, queryVars, accountVars, extVars>>

\* a task of another definition starts or stops in the cluster
ForeignTask ==
    /\ foreign' = ~foreign
    /\ UNCHANGED <<taskState, taskDefinitionArn, seen, touched, thrown, logged, exitCode>>
    /\ UNCHANGED <<crawlVars, paginatorVars, queryVars, accountVars, extVars>>

NextMutex ==
    \/ \E t \in Tasks : Launch(t)
    \/ \E t \in Tasks : InitialiseFails(t)
    \/ \E t \in Tasks : InventoryCheck(t)
    \/ \E t \in Tasks : AccessStores(t)
    \/ \E t \in Tasks : Finish(t)
    \/ \E t \in Tasks : Deregister(t)
    \/ ForeignTask

SpecMutex == InitMutex /\ [][NextMutex]_vars

\* ------------------------------------------------------------------------
\* Accounts: apiClient.getAccounts and persistAccounts
\* ------------------------------------------------------------------------
MaxAccounts == 2

MaxRegions == 1

AccountIds == 1..MaxAccounts

Regions == 1..MaxRegions

\* new Date().toISOString() of this crawl; stored timestamps are earlier
crawlTime == 2

\* {...a, ...b}
merge(a, b) == [k \in DOMAIN a \cup DOMAIN b |-> IF k \in DOMAIN b THEN b[k] ELSE a[k]]

\* R.omit(keys)
omit(keys, obj) == [k \in DOMAIN obj \ keys |-> obj[k]]

\* truthiness of an optional boolean property
isTruthy(obj, k) == k \in DOMAIN obj /\ obj[k] = TRUE

\* the regions of the config aggregator: OrganizationAggregationSource.AwsRegions.map(name => ({name}))
aggregatorRegions == [r \in Regions |-> [name |-> r]]

\* an account as the getAccounts query returns it
storedAccount(id, lastCrawled) ==
    [accountId |-> id, lastCrawled |-> lastCrawled, name |-> id, regions |-> aggregatorRegions]

\* the accounts of the organization joined with the stored accounts; stored
\* accounts that left the organization are appended with toDelete
getOrgAccounts(dbAccounts_, orgAccounts_) ==
    [id \in orgAccounts_ \cup (DOMAIN dbAccounts_ \ orgAccounts_) |->
        IF id \in orgAccounts_
        THEN LET lastCrawled == IF id \in DOMAIN dbAccounts_ THEN dbAccounts_[id].lastCrawled ELSE Nil
             IN  merge(merge([accountId |-> id, organizationId |-> "o-1", name |-> id],
                             IF lastCrawled # Nil THEN [lastCrawled |-> lastCrawled] ELSE <<>>),
                       [regions |-> aggregatorRegions,
                        toDelete |-> id \in DOMAIN dbAccounts_ /\ id \notin orgAccounts_])
        ELSE merge(dbAccounts_[id], [toDelete |-> TRUE])]

\* a variant that keeps the accounts whose role could not be assumed for
\* another reason than access denied
addAccountCredentialsKeepingAll(accounts_, outcome) ==
    [id \in DOMAIN accounts_ |->
        IF outcome[id] = "ok"
        THEN merge(accounts_[id], [isIamRoleDeployed |-> TRUE, credentials |-> TRUE])
        ELSE merge(accounts_[id], [isIamRoleDeployed |-> FALSE])]

\* outcome[id] is what assuming the discovery role of the account gave:
\* "ok", "accessDenied" or "error"; accounts with another error are dropped
addAccountCredentials(accounts_, outcome) ==
    [id \in {i \in DOMAIN accounts_ : outcome[i] # "error"} |->
        IF outcome[id] = "ok"
        THEN merge(accounts_[id], [isIamRoleDeployed |-> TRUE, credentials |-> TRUE])
        ELSE merge(accounts_[id], [isIamRoleDeployed |-> FALSE])]

\* probe[id][r] is what configClient.isConfigEnabled() gave in region r:
\* "true", "false", "accessDenied" or "error"; isConfigEnabled is "null" for null
addConfigStatus(accounts_, probe) ==
    [id \in DOMAIN accounts_ |->
        LET account == merge(accounts_[id],
                [regions |-> [r \in DOMAIN accounts_[id].regions |->
                                merge(accounts_[id].regions[r], [isConfigEnabled |-> "null"])]])
            regions  == IF \E r \in DOMAIN account.regions : probe[id][r] = "accessDenied"
                        THEN account.regions
                        ELSE [r \in DOMAIN account.regions |->
                                merge(account.regions[r],
                                      [isConfigEnabled |-> IF probe[id][r] = "error" THEN "null"
                                                           ELSE probe[id][r]])]
        IN  IF ~account.isIamRoleDeployed THEN account ELSE merge(account, [regions |-> regions])]

\* the accounts whose role is deployed and that were denied access by the
\* config probe of one of their regions
probeDenied(accounts_, probe) ==
    {id \in DOMAIN accounts_ :
        /\ accounts_[id].isIamRoleDeployed
        /\ \E r \in DOMAIN accounts_[id].regions : probe[id][r] = "accessDenied"}

\* a variant that stamps every account, whatever isIamRoleDeployed says
lastCrawledAlwaysNow(isIamRoleDeployed, lastCrawled) == crawlTime

\* the lastCrawled both account mutations send
lastCrawledToSend(isIamRoleDeployed, lastCrawled) ==
    IF isIamRoleDeployed THEN crawlTime ELSE lastCrawled

\* the variables updateCrawledAccounts passes to appSync.updateAccount
updateCrawledAccount(account) ==
    [accountId |-> account.accountId,
     isIamRoleDeployed |-> account.isIamRoleDeployed,
     lastCrawled |-> lastCrawledToSend(account.isIamRoleDeployed, Get(account, "lastCrawled"))]

\* an account as addCrawledAccounts passes it to appSync.addAccounts
addCrawledAccount(account) ==
    LET props == omit({"credentials", "toDelete"}, account)
    IN  merge(props,
              [regions |-> [r \in DOMAIN props.regions |-> omit({"isConfigEnabled"}, props.regions[r])],
               lastCrawled |-> lastCrawledToSend(props.isIamRoleDeployed, Get(props, "lastCrawled"))])

accountsToDelete(accounts_) == {id \in DOMAIN accounts_ : isTruthy(accounts_[id], "toDelete")}

accountsToAdd(accounts_) ==
    {id \in DOMAIN accounts_ \ accountsToDelete(accounts_) : Get(accounts_[id], "lastCrawled") = Nil}

accountsToUpdate(accounts_) ==
    (DOMAIN accounts_ \ accountsToDelete(accounts_)) \ accountsToAdd(accounts_)

NoAccountCalls ==
    [addAccounts |-> <<>>, updateAccount |-> <<>>, deleteAccounts |-> {}, rejected |-> {}]

\* a variant with the semantics of Promise.all: the first rejection rejects
promiseAll(rejected) == IF rejected = {} THEN "done" ELSE "failed"

\* await Promise.allSettled([...]): fulfilled whatever the three promises
\* did; the rejected ones are logged
allSettled(rejected) == "done"

InitAccounts ==
    /\ apc = "getAccounts"
    /\ isUsingOrganizations \in BOOLEAN
    /\ \E stored \in SUBSET AccountIds :
         \E lc \in [stored -> {Nil, 1}] :
            accountStore = [id \in stored |-> storedAccount(id, lc[id])]
    /\ orgAccounts \in (IF isUsingOrganizations THEN SUBSET AccountIds ELSE {{}})
    /\ dbAccounts = <<>>
    /\ accounts = <<>>
    /\ accountCalls = NoAccountCalls
    /\ denied = {}
    /\ assumed = <<>>
    /\ CrawlIdle
    /\ PaginatorIdle
    /\ QueryIdle
    /\ MutexIdle
    /\ ExtIdle

UnchangedByAccounts == UNCHANGED <<crawlVars, paginatorVars, queryVars, mutexVars, extVars>>

\* config.isUsingOrganizations ? getOrgAccounts(...) : appSync.getAccounts()
GetAccounts ==
    /\ apc = "getAccounts"
    /\ dbAccounts' = accountStore
    /\ accounts' = IF isUsingOrganizations THEN getOrgAccounts(accountStore, orgAccounts)
                   ELSE accountStore
    /\ apc' = "credentials"
    /\ UNCHANGED <<isUsingOrganizations, accountStore, orgAccounts, accountCalls, denied,
                   assumed>>
    /\ UnchangedByAccounts

AddAccountCredentials ==
    /\ apc = "credentials"
    /\ \E outcome \in [DOMAIN accounts -> {"ok", "accessDenied", "error"}] :
          /\ accounts' = addAccountCredentials(accounts, outcome)
          /\ assumed' = outcome
    /\ apc' = "configStatus"
    /\ UNCHANGED <<isUsingOrganizations, accountStore, orgAccounts, dbAccounts, accountCalls,
                   denied>>
    /\ UnchangedByAccounts

AddConfigStatus ==
    /\ apc = "configStatus"
    /\ \E probe \in [{id \in DOMAIN accounts : accounts[id].isIamRoleDeployed} ->
                        [Regions -> {"true", "false", "accessDenied", "error"}]] :
          /\ accounts' = addConfigStatus(accounts, probe)
          /\ denied' = probeDenied(accounts, probe)
    /\ apc' = "persist"
    /\ UNCHANGED <<isUsingOrganizations, accountStore, orgAccounts, dbAccounts, accountCalls,
                   assumed>>
    /\ UnchangedByAccounts

\* the accounts a successful addAccounts / updateAccount / deleteAccounts leaves stored
storeAfter(store, added, updated, deleted) ==
    [id \in (DOMAIN store \cup DOMAIN added) \ deleted |->
        IF id \in DOMAIN added
        THEN storedAccount(id, Get(added[id], "lastCrawled"))
        ELSE IF id \in DOMAIN updated
        THEN merge(store[id], [lastCrawled |-> updated[id].lastCrawled])
        ELSE store[id]]

\* persistAccounts: with organizations the three mutations run under
\* Promise.allSettled, without them every account is updated
PersistAccounts ==
    /\ apc = "persist"
    /\ LET toAdd    == IF isUsingOrganizations THEN accountsToAdd(accounts) ELSE {}
           toUpdate == IF isUsingOrganizations THEN accountsToUpdate(accounts) ELSE DOMAIN accounts
           toDelete == IF isUsingOrganizations THEN accountsToDelete(accounts) ELSE {}
           added    == [id \in toAdd |-> addCrawledAccount(accounts[id])]
           updated  == [id \in toUpdate |-> updateCrawledAccount(accounts[id])]
       IN  \E addOk \in (IF isUsingOrganizations THEN BOOLEAN ELSE {TRUE}),
              deleteOk \in (IF isUsingOrganizations THEN BOOLEAN ELSE {TRUE}),
              updateOk \in SUBSET toUpdate :
                LET rejected == (IF addOk THEN {} ELSE {"addAccounts"})
                                    \cup (IF deleteOk THEN {} ELSE {"deleteAccounts"})
                IN  /\ accountCalls' = [addAccounts |-> added, updateAccount |-> updated,
                                        deleteAccounts |-> toDelete, rejected |-> rejected]
                    /\ accountStore' = storeAfter(accountStore,
                                            IF addOk THEN added ELSE <<>>,
                                            [id \in updateOk \cap DOMAIN accountStore |->
                                                updated[id]],
                                            IF deleteOk THEN toDelete ELSE {})
                    /\ apc' = allSettled(rejected)
    /\ UNCHANGED <<isUsingOrganizations, orgAccounts, dbAccounts, accounts, denied, assumed>>
    /\ UnchangedByAccounts

NextAccounts ==
    \/ GetAccounts
    \/ AddAccountCredentials
    \/ AddConfigStatus
    \/ PersistAccounts

SpecAccounts == InitAccounts /\ [][NextAccounts]_vars

\* ------------------------------------------------------------------------
\* discoverResources: the phases between the aggregator and the stores
\* ------------------------------------------------------------------------
MaxPipelineId == 3

MaxTuples == 2

PipelineIds == 1..MaxPipelineId

\* the (account, region) pairs the batch handlers are called for
credentialsTuples == 1..MaxTuples

\* the phases in the order discoverResources, getAllSdkResources and
\* addAdditionalRelationships run them
pipelinePhases ==
    <<"baseline", "tierA", "tierB", "tierC", "tierD", "stage1", "stage2",
      "normalization", "vpcBackfill", "projection", "delta", "persistence">>

phaseIndex(p) == CHOOSE i \in 1..Len(pipelinePhases) : pipelinePhases[i] = p

\* resources.map(R.compose(addVpcInfo(resourceMap), normaliseRelationshipNames))
\* is one pass: plPhase stays "normalization" for both
followingPhase(p) ==
    CASE p = "normalization" -> "projection"
      [] p = "persistence" -> "done"
      [] OTHER -> pipelinePhases[phaseIndex(p) + 1]

\* the work items of a phase: the whole array (0), the credentials tuples,
\* or one item for each resource the phase maps or pools over
phaseItems(p, ws, first) ==
    CASE p \in {"baseline", "tierD", "delta", "persistence"} -> {0}
      [] p \in {"tierA", "stage1"} -> credentialsTuples
      [] p = "tierC" -> first
      [] p \in {"tierB", "stage2", "normalization", "vpcBackfill", "projection"} -> ws
      [] OTHER -> {}

\* PromisePool.withConcurrency(n); the synchronous maps run one item at a time
poolConcurrency(p) ==
    CASE p = "tierB" -> 15
      [] p = "tierC" -> 10
      [] p = "stage2" -> 30
      [] p \in {"tierA", "stage1"} -> Cardinality(credentialsTuples)
      [] OTHER -> 1

\* the phases that return resources to append to the array
tiers == {"tierA", "tierB", "tierC", "tierD"}

\* a variant that goes on once every item has begun
allBegun(unfinished, running) == unfinished \subseteq running

\* await: the phase is over when every one of its work items has finished
awaited(unfinished, running) == unfinished = {}

\* the phases before p that still have unfinished work items
unfinishedBefore(p, unfinished) ==
    {<<p, pipelinePhases[i]>> : i \in {j \in 1..(phaseIndex(p) - 1) :
                                         unfinished[pipelinePhases[j]] # {}}}

Min(S) == CHOOSE x \in S : \A y \in S : x <= y

NoItems == [p \in Range(pipelinePhases) |-> {}]

InitPipeline ==
    /\ plPhase = "baseline"
    /\ workingSet \in (SUBSET PipelineIds) \ {{}}
    /\ plUnfinished = [NoItems EXCEPT !["baseline"] = {0}]
    /\ plRunning = NoItems
    /\ plResults = {}
    /\ firstResults = {}
    /\ plEarly = {}
    /\ CrawlIdle
    /\ PaginatorIdle
    /\ QueryIdle
    /\ MutexIdle
    /\ AccountsIdle
    /\ ProjectIdle
    /\ DiscoverIdle
    /\ EnvIdle
    /\ NormIdle
    /\ TagIdle
    /\ StageIdle

UnchangedByPipeline ==
    UNCHANGED <<crawlVars, paginatorVars, queryVars, mutexVars, accountVars, projectVars,
                discoverVars, envVars, normVars, tagVars, stageVars>>

\* a work item of the current phase begins
StartItem ==
    /\ plPhase \in Range(pipelinePhases) \ {"normalization", "vpcBackfill"}
    /\ Cardinality(plRunning[plPhase]) < poolConcurrency(plPhase)
    /\ \E i \in plUnfinished[plPhase] \ plRunning[plPhase] :
          plRunning' = [plRunning EXCEPT ![plPhase] = @ \cup {i}]
    /\ plEarly' = plEarly \cup unfinishedBefore(plPhase, plUnfinished)
    /\ UNCHANGED <<plPhase, workingSet, plUnfinished, plResults, firstResults>>
    /\ UnchangedByPipeline

\* a work item ends: the filter of the baseline keeps some of the resources,
\* a handler of a tier returns resources that are not in the array yet
FinishItem ==
    /\ \E p \in Range(pipelinePhases) : \E i \in plRunning[p] :
        /\ plRunning' = [plRunning EXCEPT ![p] = @ \ {i}]
        /\ plUnfinished' = [plUnfinished EXCEPT ![p] = @ \ {i}]
        /\ IF p = "baseline"
           THEN /\ workingSet' \in (SUBSET workingSet) \ {{}}
                /\ UNCHANGED plResults
           ELSE IF p \in tiers
           THEN /\ plResults' \in {plResults \cup Y :
                                     Y \in SUBSET (PipelineIds \ (workingSet \cup plResults))}
                /\ UNCHANGED workingSet
           ELSE UNCHANGED <<workingSet, plResults>>
    /\ UNCHANGED <<plPhase, firstResults, plEarly>>
    /\ UnchangedByPipeline

\* normaliseRelationshipNames(resource), for the next resource of the array
Normalise ==
    /\ plPhase = "normalization"
    /\ plUnfinished["normalization"] # {}
    /\ plUnfinished["vpcBackfill"] = plUnfinished["normalization"]
    /\ plUnfinished' = [plUnfinished EXCEPT
                           !["normalization"] = @ \ {Min(plUnfinished["normalization"])}]
    /\ plEarly' = plEarly \cup unfinishedBefore("normalization", plUnfinished)
    /\ UNCHANGED <<plPhase, workingSet, plRunning, plResults, firstResults>>
    /\ UnchangedByPipeline

\* addVpcInfo(resourceMap)(resource), for the resource just normalised
AddVpcInfo ==
    /\ plPhase = "normalization"
    /\ plUnfinished["vpcBackfill"] # plUnfinished["normalization"]
    /\ plUnfinished' = [plUnfinished EXCEPT
                           !["vpcBackfill"] = @ \ {Min(plUnfinished["vpcBackfill"])}]
    /\ plEarly' = plEarly \cup unfinishedBefore("vpcBackfill", plUnfinished)
    /\ UNCHANGED <<plPhase, workingSet, plRunning, plResults, firstResults>>
    /\ UnchangedByPipeline

\* the await of the phase returns: what the tier returned is pushed onto the
\* array and the next phase gets its work items
EndPhase ==
    /\ plPhase \in Range(pipelinePhases)
    /\ awaited(plUnfinished[plPhase], plRunning[plPhase])
    /\ plPhase = "normalization" => plUnfinished["vpcBackfill"] = {}
    /\ plPhase' = followingPhase(plPhase)
    /\ workingSet' = workingSet \cup plResults
    /\ firstResults' = IF plPhase = "tierB" THEN plResults ELSE firstResults
    /\ plResults' = {}
    /\ plUnfinished' =
          [p \in Range(pipelinePhases) |->
              IF p = plPhase' \/ (plPhase' = "normalization" /\ p = "vpcBackfill")
              THEN phaseItems(p, workingSet', firstResults')
              ELSE plUnfinished[p]]
    /\ UNCHANGED <<plRunning, plEarly>>
    /\ UnchangedByPipeline

NextPipeline ==
    \/ StartItem
    \/ FinishItem
    \/ Normalise
    \/ AddVpcInfo
    \/ EndPhase

SpecPipeline == InitPipeline /\ [][NextPipeline]_vars

\* ------------------------------------------------------------------------
\* persistence/transformers: the save projection
\* ------------------------------------------------------------------------
MaxProjections == 3

NAME == "Name"

propertiesToKeep ==
    {"accountId", "arn", "availabilityZone", "awsRegion", "configuration",
     "configurationItemCaptureTime", "configurationItemStatus", "configurationStateId",
     "resourceCreationTime", "resourceId", "resourceName", "resourceType",
     "supplementaryConfiguration", "tags", "version", "vpcId", "subnetId", "subnetIds",
     "resourceValue", "state", "private", "dBInstanceStatus", "statement", "instanceType"}

propertiesToJsonStringify == {"configuration", "supplementaryConfiguration", "tags", "state"}

\* JSON.stringify(value): the text of the value, which is not the value
stringify(value) == <<"JSON", value>>

createSignInHostname(accountId, service) == <<"https", accountId, "signin", "console", service>>

createLoggedInHostname(awsRegion, service) == <<"https", awsRegion, "console", service, "home">>

\* the console links of the resource types of the model: roles go through
\* iamUrlMappings, instances through defaultUrlMappings, the others have none
createConsoleUrls(resource) ==
    CASE resource.resourceType = AWS_IAM_ROLE ->
            [loginURL |-> <<createSignInHostname(resource.accountId, "iam"), "/roles">>,
             loggedInURL |-> <<"https", "console", "iam", "home", "/roles">>]
      [] resource.resourceType = AWS_EC2_INSTANCE ->
            [loginURL |-> <<createSignInHostname(resource.accountId, "ec2"),
                            resource.awsRegion, "Instances:sort=instanceId">>,
             loggedInURL |-> <<createLoggedInHostname(resource.awsRegion, "ec2/v2"),
                               resource.awsRegion, "Instances:sort=instanceId">>]
      [] OTHER -> <<>>

\* the Name tag, else the resource name, else the resource id (none of the
\* resource types of the model takes its title from its arn)
createTitle(resource) ==
    LET tags == resource.tags
        named == {i \in 1..Len(tags) : tags[i].key = NAME}
    IN  IF named # {} THEN tags[Min(named)].value
        ELSE IF Get(resource, "resourceName") = Nil THEN resource.resourceId
        ELSE resource.resourceName

createProperties(resource) ==
    LET properties == [k \in DOMAIN resource \cap propertiesToKeep |->
                          IF k \in propertiesToJsonStringify THEN stringify(resource[k])
                          ELSE resource[k]]
        logins == createConsoleUrls(resource)
        withLogins == IF DOMAIN logins = {} THEN properties
                      ELSE merge(properties, [loginURL |-> logins.loginURL,
                                              loggedInURL |-> logins.loggedInURL])
    IN  merge(withLogins, [title |-> createTitle(resource)])

\* a variant that saves no tags
createSaveObjectWithoutTags(resource) ==
    LET properties == createProperties(resource)
    IN  [id |-> resource.id,
         md5Hash |-> IF resource.resourceType \in resourceTypesToHash THEN hash(properties) ELSE 0,
         resourceId |-> resource.resourceId,
         resourceName |-> Get(resource, "resourceName"),
         resourceType |-> resource.resourceType,
         accountId |-> resource.accountId,
         arn |-> Get(resource, "arn"),
         awsRegion |-> resource.awsRegion,
         relationships |-> IF "relationships" \in DOMAIN resource THEN resource.relationships ELSE <<>>,
         properties |-> properties,
         tags |-> <<>>]

\* the object saved for a resource; md5Hash is 0 for the empty string
createSaveObject(resource) ==
    LET properties == createProperties(resource)
    IN  [id |-> resource.id,
         md5Hash |-> IF resource.resourceType \in resourceTypesToHash THEN hash(properties) ELSE 0,
         resourceId |-> resource.resourceId,
         resourceName |-> Get(resource, "resourceName"),
         resourceType |-> resource.resourceType,
         accountId |-> resource.accountId,
         arn |-> Get(resource, "arn"),
         awsRegion |-> resource.awsRegion,
         relationships |-> IF "relationships" \in DOMAIN resource THEN resource.relationships ELSE <<>>,
         properties |-> properties,
         tags |-> IF "tags" \in DOMAIN resource THEN resource.tags ELSE <<>>]

\* the tags a resource may carry
tagChoices == {<<>>, <<[key |-> NAME, value |-> 2]>>, <<[key |-> "env", value |-> 1]>>}

\* a resource as the aggregator and the enrichment phases describe it; the
\* optional fields are present when the argument is not Nil
rawResource(id, resourceType, resourceName, accountId, awsRegion, tags, configuration, captureTime) ==
    merge(merge([id |-> id, resourceId |-> id, resourceName |-> resourceName,
                 resourceType |-> resourceType, accountId |-> accountId, arn |-> id,
                 awsRegion |-> awsRegion, relationships |-> <<>>, tags |-> tags],
                IF configuration # Nil THEN [configuration |-> configuration] ELSE <<>>),
          IF captureTime # Nil THEN [configurationItemCaptureTime |-> captureTime] ELSE <<>>)

InitProject ==
    /\ \E resourceType \in {AWS_ECS_TASK, AWS_EC2_INSTANCE, AWS_IAM_ROLE},
          resourceName \in {Nil, 1}, accountId \in AccountIds, awsRegion \in {GLOBAL} \cup Regions,
          tags \in tagChoices, configuration \in {Nil, 1}, captureTime \in {Nil, 1} :
            raw = rawResource(1, resourceType, resourceName, accountId, awsRegion, tags,
                              configuration, captureTime)
    /\ projected = <<>>
    /\ CrawlIdle
    /\ PaginatorIdle
    /\ QueryIdle
    /\ MutexIdle
    /\ AccountsIdle
    /\ PipelineIdle
    /\ DiscoverIdle
    /\ EnvIdle
    /\ NormIdle
    /\ TagIdle
    /\ StageIdle

\* R.map(createSaveObject), applied to the resource and then to its own result
CreateSaveObject ==
    /\ Len(projected) < MaxProjections
    /\ projected' = Append(projected,
                           createSaveObject(IF projected = <<>> THEN raw
                                            ELSE projected[Len(projected)]))
    /\ UNCHANGED raw
    /\ UNCHANGED <<crawlVars, paginatorVars, queryVars, mutexVars, accountVars, pipelineVars,
                   discoverVars, envVars, normVars, tagVars, stageVars>>

NextProject == CreateSaveObject

SpecProject == InitProject /\ [][NextProject]_vars

\* ------------------------------------------------------------------------
\* discoverResources: accounts, aggregator filter, SDK resources, deltas
\* ------------------------------------------------------------------------
MaxConfigId == 2

ConfigIds == 1..MaxConfigId

RESOURCE_NOT_RECORDED == "ResourceNotRecorded"

\* a region none of the accounts lists
unlistedRegion == MaxRegions + 1

\* the account that owns the aggregator resource with the given id
accountOf(id) == ((id - 1) % MaxAccounts) + 1

\* the id of the resource the SDK handlers discover in an account
sdkId(accountId) == MaxConfigId + accountId

\* a resource as the aggregator returns it
configResource(id, awsRegion, configurationItemStatus) ==
    merge(rawResource(id, typeOfId(id), Nil, accountOf(id), awsRegion, <<>>, 1, 1),
          [configurationItemStatus |-> configurationItemStatus])

\* where and in which state the aggregator may report a resource
configShapes ==
    {[awsRegion |-> 1, status |-> "OK"], [awsRegion |-> GLOBAL, status |-> "OK"],
     [awsRegion |-> unlistedRegion, status |-> "OK"],
     [awsRegion |-> 1, status |-> RESOURCE_NOT_RECORDED]}

\* a resource an SDK handler creates
sdkResource(accountId) ==
    rawResource(sdkId(accountId), AWS_TAGS_TAG, 1, accountId, GLOBAL, <<>>, Nil, Nil)

\* new Map(accounts.filter(x => x.isIamRoleDeployed && !x.toDelete).map(...))
accountsMapOf(accounts_) ==
    [id \in {i \in DOMAIN accounts_ :
                isTruthy(accounts_[i], "isIamRoleDeployed") /\ ~isTruthy(accounts_[i], "toDelete")} |->
        merge(accounts_[id],
              [regions |-> [r \in DOMAIN accounts_[id].regions |-> accounts_[id].regions[r].name]])]

\* a variant that only looks at the status of the configuration item
shouldDiscoverRecorded(accountsMap_, resource) ==
    resource.configurationItemStatus # RESOURCE_NOT_RECORDED

shouldDiscoverResource(accountsMap_, resource) ==
    IF resource.configurationItemStatus = RESOURCE_NOT_RECORDED THEN FALSE
    ELSE LET regions == IF resource.accountId \in DOMAIN accountsMap_
                        THEN Range(accountsMap_[resource.accountId].regions) ELSE {}
         IN  \/ resource.accountId \in DOMAIN accountsMap_ /\ resource.awsRegion = GLOBAL
             \/ resource.awsRegion \in regions

RECURSIVE mapSaveObject(_)
mapSaveObject(rs) ==
    IF rs = <<>> THEN <<>> ELSE <<createSaveObject(Head(rs))>> \o mapSaveObject(Tail(rs))

\* the aggregator content, the stored accounts and resources, and the
\* organization as the crawl finds them
InitDiscover ==
    /\ pc = "getAccounts"
    /\ isUsingOrganizations \in BOOLEAN
    /\ \E stored \in SUBSET AccountIds : accountStore = [id \in stored |-> storedAccount(id, 1)]
    /\ orgAccounts \in (IF isUsingOrganizations THEN SUBSET AccountIds ELSE {{}})
    /\ \E shape \in [ConfigIds -> configShapes] :
         configResources = [id \in ConfigIds |->
                              configResource(id, shape[id].awsRegion, shape[id].status)]
    /\ \E D \in SUBSET ConfigIds :
         dbResourcesMap = [id \in D |-> storedResource(createSaveObject(configResource(id, 1, "OK")))]
    /\ accountsMap = <<>>
    /\ resources = <<>>
    /\ dbLinksMap = <<>>
    /\ deltas = NoDeltas
    /\ graphStore = <<>> /\ searchIndex = {} /\ graphLinks = {}
    /\ pending = <<>> /\ inflight = {} /\ errors = <<>> /\ calls = {}
    /\ failures = <<>> /\ reconciled = <<>> /\ previous = <<>>
    /\ apc = "idle" /\ dbAccounts = <<>> /\ accounts = <<>> /\ accountCalls = {} /\ denied = {}
    /\ assumed = <<>>
    /\ PaginatorIdle
    /\ QueryIdle
    /\ MutexIdle
    /\ PipelineIdle
    /\ ProjectIdle
    /\ EnvIdle
    /\ NormIdle
    /\ TagIdle
    /\ StageIdle

UnchangedByDiscover ==
    /\ UNCHANGED <<dbResourcesMap, dbLinksMap, graphStore, searchIndex, graphLinks, pending,
                   inflight, errors, calls, failures, reconciled, previous>>
    /\ UNCHANGED <<paginatorVars, queryVars, mutexVars, accountVars, pipelineVars, projectVars,
                   envVars, normVars, tagVars, stageVars>>
    /\ UNCHANGED configResources

\* apiClient.getAccounts() and the accountsMap built from its result; every
\* region of an account answers the config probe alike
CreateAccountsMap ==
    /\ pc = "getAccounts"
    /\ LET found == IF isUsingOrganizations THEN getOrgAccounts(accountStore, orgAccounts)
                    ELSE accountStore
       IN  \E outcome \in [DOMAIN found -> {"ok", "accessDenied", "error"}],
              answer \in {"true", "accessDenied"} :
                accountsMap' = accountsMapOf(
                    addConfigStatus(addAccountCredentials(found, outcome),
                                    [id \in DOMAIN found |-> [r \in Regions |-> answer]]))
    /\ pc' = "filter"
    /\ UNCHANGED <<resources, deltas>>
    /\ UnchangedByDiscover

\* .then(R.filter(shouldDiscoverResource(accountsMap)))
FilterConfigResources ==
    /\ pc = "filter"
    /\ resources' = FilterSeq(configResources,
                        {r \in Range(configResources) : shouldDiscoverResource(accountsMap, r)})
    /\ pc' = "getAllSdkResources"
    /\ UNCHANGED <<accountsMap, deltas>>
    /\ UnchangedByDiscover

\* .then(getAllSdkResources(accountsMap, awsClient)): the handlers run with
\* the credentials of the accounts of accountsMap and append what they find
GetAllSdkResources ==
    /\ pc = "getAllSdkResources"
    /\ \E found \in {{}, DOMAIN accountsMap} :
         resources' = resources \o [k \in 1..Cardinality(found) |->
                                       sdkResource(SortedSeq(found)[k])]
    /\ pc' = "createSaveObject"
    /\ UNCHANGED <<accountsMap, deltas>>
    /\ UnchangedByDiscover

\* .then(addAdditionalRelationships(...)), which returns the same resources
\* with relationships added, .then(R.map(createSaveObject)) and
\* .then(createResourceAndRelationshipDeltas(dbResourcesMap, dbLinksMap))
CreateDeltas ==
    /\ pc = "createSaveObject"
    /\ resources' = mapSaveObject(resources)
    /\ deltas' = createResourceAndRelationshipDeltas(dbResourcesMap, dbLinksMap, resources')
    /\ pc' = "persist"
    /\ UNCHANGED accountsMap
    /\ UnchangedByDiscover

NextDiscover ==
    \/ CreateAccountsMap
    \/ FilterConfigResources
    \/ GetAllSdkResources
    \/ CreateDeltas

SpecDiscover == InitDiscover /\ [][NextDiscover]_vars

\* ------------------------------------------------------------------------
\* Batched relationships: the environment variables of Lambda functions
\* ------------------------------------------------------------------------
MaxVariables == 2

AWS_LAMBDA_FUNCTION == "AWS::Lambda::Function"

AWS_S3_BUCKET == "AWS::S3::Bucket"

AWS_S3_ACCOUNT_PUBLIC_ACCESS_BLOCK == "AWS::S3::AccountPublicAccessBlock"

IS_ASSOCIATED_WITH == "Is associated with "

\* strings are numbers: account ids are 1..MaxAccounts, and the arn, the
\* name and the endpoint of the k-th resource are told apart by their hundreds
envArn(k) == 100 + k

envName(k) == 200 + k

envEndpoint(k) == 300 + k

\* createRelationship(IS_ASSOCIATED_WITH)(resourceType, {arn})
createAssociatedRelationship(resourceType, arn) ==
    [relationshipName |-> IS_ASSOCIATED_WITH, arn |-> arn, resourceType |-> resourceType]

\* envVarResourceIdentifierToIdMap of createLookUpMaps: the keys carry no
\* resource type; built in array order, the name key before the id key
RECURSIVE envVarIdentifierMapOf(_, _)
envVarIdentifierMapOf(rs, acc) ==
    IF rs = <<>> THEN acc
    ELSE LET r == Head(rs)
             nameKey == createResourceNameKey(Nil, r.resourceName, r.accountId, r.awsRegion)
             idKey == createResourceIdKey(Nil, r.resourceId, r.accountId, r.awsRegion)
             withName == IF r.resourceName # Nil
                         THEN [k \in DOMAIN acc \cup {nameKey} |->
                                 IF k = nameKey THEN r.id ELSE acc[k]]
                         ELSE acc
             withId == [k \in DOMAIN withName \cup {idKey} |->
                                 IF k = idKey THEN r.id ELSE withName[k]]
         IN envVarIdentifierMapOf(Tail(rs), withId)

\* endpointToIdMap of createResourceTypeLookUpMaps: the endpoint of the
\* configuration of a resource -> its id
RECURSIVE endpointMapOf(_, _)
endpointMapOf(rs, acc) ==
    IF rs = <<>> THEN acc
    ELSE LET r == Head(rs)
         IN  endpointMapOf(Tail(rs),
                IF r.endpoint # Nil
                THEN [k \in DOMAIN acc \cup {r.endpoint} |-> IF k = r.endpoint THEN r.id ELSE acc[k]]
                ELSE acc)

\* the relationships inferred from the values of the variables, in order
RECURSIVE createEnvironmentVariableRelationships(_, _, _, _, _, _)
createEnvironmentVariableRelationships(resourceMap_, envVarResourceIdentifierToIdMap, endpointToIdMap, accountId, awsRegion, variables) ==
    IF variables = <<>> THEN <<>>
    ELSE LET val == Head(variables)
             resourceIdKey == createResourceIdKey(Nil, val, accountId, awsRegion)
             resourceNameKey == createResourceNameKey(Nil, val, accountId, awsRegion)
             id == Coalesce(Coalesce(Get(envVarResourceIdentifierToIdMap, resourceIdKey),
                                     Get(envVarResourceIdentifierToIdMap, resourceNameKey)),
                            Get(endpointToIdMap, val))
             found ==
                IF val \in DOMAIN resourceMap_
                THEN <<createAssociatedRelationship(resourceMap_[val].resourceType,
                                                    resourceMap_[val].arn)>>
                ELSE IF /\ id \in DOMAIN resourceMap_
                        /\ resourceMap_[id].resourceId # accountId
                        /\ resourceMap_[id].resourceType # AWS_S3_ACCOUNT_PUBLIC_ACCESS_BLOCK
                THEN <<createAssociatedRelationship(resourceMap_[id].resourceType, id)>>
                ELSE <<>>
         IN  found \o createEnvironmentVariableRelationships(resourceMap_,
                          envVarResourceIdentifierToIdMap, endpointToIdMap, accountId,
                          awsRegion, Tail(variables))

\* a resource as the lookup maps see it
envResource(k, resourceType, resourceId, resourceName, accountId, awsRegion, endpoint) ==
    [id |-> envArn(k), arn |-> envArn(k), resourceType |-> resourceType,
     resourceId |-> resourceId, resourceName |-> resourceName, accountId |-> accountId,
     awsRegion |-> awsRegion, endpoint |-> endpoint, relationships |-> <<>>]

\* the function whose variables are read: account 1, region 1
lambdaResource == envResource(1, AWS_LAMBDA_FUNCTION, envName(1), envName(1), 1, 1, Nil)

\* the public access block of an account: its resourceId is the account id
publicAccessBlock(accountId, awsRegion) ==
    envResource(2, AWS_S3_ACCOUNT_PUBLIC_ACCESS_BLOCK, accountId, Nil, accountId, awsRegion, Nil)

bucketResource(accountId, endpoint) ==
    envResource(3, AWS_S3_BUCKET, envName(3), envName(3), accountId, 1, endpoint)

\* what the value of a variable may be
variableValues ==
    {envArn(1), envArn(2), envArn(3), envName(0), envName(1), envName(3), envEndpoint(3)}
        \cup AccountIds

\* the Environment of a function as the Lambda API reports it: null (no
\* field), an Error for variables that cannot be decrypted, or the Variables
environments ==
    {<<>>, [Error |-> "AccessDeniedException"]}
        \cup {[Variables |-> vs] : vs \in UNION {[1..n -> variableValues] : n \in 0..MaxVariables}}

InitEnv ==
    /\ envPc = "functions"
    /\ \E withLambda \in BOOLEAN,
          blocks \in {<<>>} \cup {<<publicAccessBlock(1, r)>> : r \in {GLOBAL, 1}},
          buckets \in {<<>>} \cup {<<bucketResource(a, e)>> :
                                        a \in AccountIds, e \in {Nil, envEndpoint(3)}} :
         lookUpResources = (IF withLambda THEN <<lambdaResource>> ELSE <<>>) \o blocks \o buckets
    /\ envResourceMap = resourcesMapOf(lookUpResources)
    /\ \E environment \in environments :
         lambdas = <<[FunctionArn |-> envArn(1), Environment |-> environment]>>
    /\ CrawlIdle
    /\ PaginatorIdle
    /\ QueryIdle
    /\ MutexIdle
    /\ AccountsIdle
    /\ PipelineIdle
    /\ ProjectIdle
    /\ DiscoverIdle
    /\ NormIdle
    /\ TagIdle
    /\ StageIdle

\* the relationships the functions handler pushes onto one function
functionRelationships(resourceMap_, resources_, fn, accountId, region) ==
    IF /\ fn.FunctionArn \in DOMAIN resourceMap_
       /\ DOMAIN fn.Environment # {}
       /\ "Error" \notin DOMAIN fn.Environment
    THEN createEnvironmentVariableRelationships(resourceMap_,
            envVarIdentifierMapOf(resources_, EmptyMap), endpointMapOf(resources_, EmptyMap),
            accountId, region, fn.Environment.Variables)
    ELSE <<>>

\* functions(credentials, accountId, region) for account 1 and region 1
Functions ==
    /\ envPc = "functions"
    /\ envResourceMap' =
          [id \in DOMAIN envResourceMap |->
              LET mine == {i \in 1..Len(lambdas) : lambdas[i].FunctionArn = id}
              IN  IF mine = {} THEN envResourceMap[id]
                  ELSE merge(envResourceMap[id],
                         [relationships |-> envResourceMap[id].relationships \o
                            functionRelationships(envResourceMap, lookUpResources,
                                                  lambdas[Min(mine)], 1, 1)])]
    /\ envPc' = "done"
    /\ UNCHANGED <<lookUpResources, lambdas>>
    /\ UNCHANGED <<crawlVars, paginatorVars, queryVars, mutexVars, accountVars, pipelineVars,
                   projectVars, discoverVars, normVars, tagVars, stageVars>>

NextEnv == Functions

SpecEnv == InitEnv /\ [][NextEnv]_vars

\* ------------------------------------------------------------------------
\* addAdditionalRelationships: relationship names and VPC information
\* ------------------------------------------------------------------------
MaxRelationships == 2

AWS_EC2_NETWORK_INTERFACE == "AWS::EC2::NetworkInterface"

AWS_EC2_SECURITY_GROUP == "AWS::EC2::SecurityGroup"

AWS_EC2_SUBNET == "AWS::EC2::Subnet"

AWS_EC2_VOLUME == "AWS::EC2::Volume"

AWS_EC2_VPC == "AWS::EC2::VPC"

AWS_CONFIG_RESOURCE_COMPLIANCE == "AWS::Config::ResourceCompliance"

AWS_CLOUDFORMATION_STACK == "AWS::CloudFormation::Stack"

VPC == "Vpc"

\* A relationship name is the sequence of its pieces: a piece is a blank
\* (" ") or a run of letters that holds no blank.
CONTAINS_ == <<"Contains", " ">>

IS_CONTAINED_IN_ == <<"Is", " ", "contained", " ", "in", " ">>

IS_ASSOCIATED_WITH_ == <<"Is", " ", "associated", " ", "with", " ">>

resourceTypesToNormalize ==
    <<AWS_EC2_INSTANCE, AWS_EC2_NETWORK_INTERFACE, AWS_EC2_SECURITY_GROUP, AWS_EC2_SUBNET,
      AWS_EC2_VOLUME, AWS_EC2_VPC, AWS_IAM_ROLE>>

resourceTypesToNormalizeSet == Range(resourceTypesToNormalize)

\* resourceType.split('::')[2]
relSuffixOf(resourceType) ==
    CASE resourceType = AWS_EC2_INSTANCE -> "Instance"
      [] resourceType = AWS_EC2_NETWORK_INTERFACE -> "NetworkInterface"
      [] resourceType = AWS_EC2_SECURITY_GROUP -> "SecurityGroup"
      [] resourceType = AWS_EC2_SUBNET -> "Subnet"
      [] resourceType = AWS_EC2_VOLUME -> "Volume"
      [] resourceType = AWS_EC2_VPC -> "VPC"
      [] resourceType = AWS_IAM_ROLE -> "Role"
      [] resourceType = AWS_S3_BUCKET -> "Bucket"
      [] OTHER -> resourceType

\* String.prototype.toLowerCase on a piece
toLowerCase(piece) ==
    CASE piece = "Instance" -> "instance"
      [] piece = "NetworkInterface" -> "networkinterface"
      [] piece = "SecurityGroup" -> "securitygroup"
      [] piece = "Subnet" -> "subnet"
      [] piece = "Volume" -> "volume"
      [] piece \in {"VPC", "Vpc"} -> "vpc"
      [] piece = "Role" -> "role"
      [] piece = "Bucket" -> "bucket"
      [] piece = "Is" -> "is"
      [] piece = "Contains" -> "contains"
      [] OTHER -> piece

normalizedSuffixSet == {toLowerCase(relSuffixOf(t)) : t \in resourceTypesToNormalizeSet}

\* relationshipName.split(' ').at(-1): the pieces after the last blank
RECURSIVE lastWord(_)
lastWord(name) ==
    IF name = <<>> \/ name[Len(name)] = " " THEN <<>>
    ELSE Append(lastWord(SubSeq(name, 1, Len(name) - 1)), name[Len(name)])

\* the last word, lower-cased, is one of the suffixes: a word of several
\* pieces is a longer string than any suffix that is one of its pieces
isQualifiedRelationshipName(relationshipName) ==
    LET word == lastWord(relationshipName)
    IN  Len(word) = 1 /\ toLowerCase(word[1]) \in normalizedSuffixSet

\* name.toLowerCase().includes(suffix.toLowerCase()), for a name none of
\* whose pieces holds the suffix as a proper part
includesIgnoringCase(name, suffix) ==
    \E i \in 1..Len(name) : toLowerCase(name[i]) = toLowerCase(suffix)

shouldNormaliseRelationship(rel) ==
    rel.resourceType \in resourceTypesToNormalizeSet
        /\ ~isQualifiedRelationshipName(rel.relationshipName)

\* a variant that leaves every name as it is
normaliseNoNames(resource) == resource

normaliseRelationshipNames(resource) ==
    IF resource.resourceType \in {AWS_TAGS_TAG, AWS_CONFIG_RESOURCE_COMPLIANCE} THEN resource
    ELSE merge(resource,
           [relationships |->
              [i \in 1..Len(resource.relationships) |->
                 LET rel == resource.relationships[i]
                     relSuffix == relSuffixOf(rel.resourceType)
                 IN  IF shouldNormaliseRelationship(rel)
                        /\ ~includesIgnoringCase(rel.relationshipName, relSuffix)
                     THEN merge(rel, [relationshipName |->
                                 Append(rel.relationshipName,
                                        IF rel.resourceType = AWS_EC2_VPC THEN VPC ELSE relSuffix)])
                     ELSE rel]])

\* createRelationship(IS_CONTAINED_IN + VPC, AWS_EC2_VPC, {resourceId})
createContainedInVpcRelationship(resourceId) ==
    [relationshipName |-> Append(IS_CONTAINED_IN_, VPC), resourceType |-> AWS_EC2_VPC,
     resourceId |-> resourceId]

\* relationshipName.includes(CONTAINS)
includesContains(name) ==
    \E i \in 1..(Len(name) - 1) : name[i] = CONTAINS_[1] /\ name[i + 1] = CONTAINS_[2]

\* the vpc of the first subnet found in resourceMap and the availability
\* zones of all of them, sorted
getSubnetInfo(subnetMap_, subnetIds) ==
    LET found == {i \in 1..Len(subnetIds) : subnetIds[i] \in DOMAIN subnetMap_}
    IN  [vpcId |-> IF found = {} THEN Nil ELSE subnetMap_[subnetIds[Min(found)]].vpcId,
         availabilityZones |->
            SortedSeq({subnetMap_[subnetIds[i]].availabilityZone : i \in found})]

addVpcInfo(subnetMap_, resource) ==
    IF resource.resourceType \in {AWS_TAGS_TAG, AWS_CONFIG_RESOURCE_COMPLIANCE,
                                   AWS_CLOUDFORMATION_STACK}
    THEN resource
    ELSE LET relationships == resource.relationships
             vpcs == {i \in 1..Len(relationships) : relationships[i].resourceType = AWS_EC2_VPC}
             subnetIds == SortedSeq({relationships[i].resourceId :
                             i \in {j \in 1..Len(relationships) :
                                       /\ relationships[j].resourceType = AWS_EC2_SUBNET
                                       /\ ~includesContains(relationships[j].relationshipName)}})
             info == getSubnetInfo(subnetMap_, subnetIds)
             inferred == subnetIds # <<>> /\ vpcs = {} /\ info.vpcId # Nil
         IN  merge(resource,
               merge(merge(merge(
                 [relationships |-> IF inferred
                                    THEN Append(relationships,
                                                createContainedInVpcRelationship(info.vpcId))
                                    ELSE relationships],
                 IF inferred THEN [vpcId |-> info.vpcId]
                 ELSE IF vpcs # {} THEN [vpcId |-> relationships[Min(vpcs)].resourceId]
                 ELSE <<>>),
                 IF subnetIds # <<>> /\ info.availabilityZones # <<>>
                 THEN [availabilityZone |-> info.availabilityZones] ELSE <<>>),
                 IF Len(subnetIds) = 1 THEN [subnetId |-> subnetIds[1]] ELSE <<>>))

\* the names the aggregator and the handlers give relationships
relationshipNames ==
    {IS_CONTAINED_IN_, IS_ASSOCIATED_WITH_, CONTAINS_,
     Append(IS_CONTAINED_IN_, "Subnet"), Append(IS_CONTAINED_IN_, VPC),
     <<"Is", " ", "associated", " ", "with">>}

relationshipTargets ==
    {[resourceType |-> t, relationshipName |-> n, resourceId |-> 1] :
        t \in {AWS_EC2_SUBNET, AWS_EC2_VPC, AWS_IAM_ROLE, AWS_S3_BUCKET}, n \in relationshipNames}

InitNorm ==
    /\ normPc = "normalise"
    /\ \E resourceType \in {AWS_LAMBDA_FUNCTION, AWS_TAGS_TAG, AWS_CLOUDFORMATION_STACK},
          relationships \in UNION {[1..n -> relationshipTargets] : n \in 0..MaxRelationships} :
         normResource = [id |-> 1, resourceType |-> resourceType, accountId |-> 1,
                         awsRegion |-> 1, relationships |-> relationships]
    /\ subnetMap \in {<<>>, [s \in {1} |-> [vpcId |-> 1, availabilityZone |-> 1]]}
    /\ CrawlIdle
    /\ PaginatorIdle
    /\ QueryIdle
    /\ MutexIdle
    /\ AccountsIdle
    /\ PipelineIdle
    /\ ProjectIdle
    /\ DiscoverIdle
    /\ EnvIdle
    /\ TagIdle
    /\ StageIdle

\* resources.map(R.compose(addVpcInfo(resourceMap), normaliseRelationshipNames))
\* for one resource
NormaliseAndAddVpcInfo ==
    /\ normPc = "normalise"
    /\ normResource' = addVpcInfo(subnetMap, normaliseRelationshipNames(normResource))
    /\ normPc' = "done"
    /\ UNCHANGED subnetMap
    /\ UNCHANGED <<crawlVars, paginatorVars, queryVars, mutexVars, accountVars, pipelineVars,
                   projectVars, discoverVars, envVars, tagVars, stageVars>>

NextNorm == NormaliseAndAddVpcInfo

SpecNorm == InitNorm /\ [][NextNorm]_vars

\* ------------------------------------------------------------------------
\* getAllSdkResources: tag synthesis
\* ------------------------------------------------------------------------
MaxTagged == 2

RESOURCE_DISCOVERED == "ResourceDiscovered"

NOT_APPLICABLE == "Not Applicable"

\* createArn({service: TAGS, accountId, resource: `${TAG}/${resourceName}`})
tagArn(accountId, resourceName) == <<"arn", AWS, "tags", accountId, "tag", resourceName>>

\* a variant whose arn does not name the account
createTagOfAnyAccount(accountId, tag) ==
    LET resourceName == <<tag.key, "=", tag.value>>
        arn == tagArn(AWS, resourceName)
    IN  [id |-> arn, accountId |-> accountId, arn |-> arn, availabilityZone |-> NOT_APPLICABLE,
         awsRegion |-> GLOBAL, configuration |-> <<>>,
         configurationItemStatus |-> RESOURCE_DISCOVERED, resourceId |-> arn,
         resourceName |-> resourceName, resourceType |-> AWS_TAGS_TAG, tags |-> <<>>,
         relationships |-> <<>>]

\* the tag resource createConfigObject builds for a key and a value
createTag(accountId, tag) ==
    LET resourceName == <<tag.key, "=", tag.value>>
        arn == tagArn(accountId, resourceName)
    IN  [id |-> arn, accountId |-> accountId, arn |-> arn, availabilityZone |-> NOT_APPLICABLE,
         awsRegion |-> GLOBAL, configuration |-> <<>>,
         configurationItemStatus |-> RESOURCE_DISCOVERED, resourceId |-> arn,
         resourceName |-> resourceName, resourceType |-> AWS_TAGS_TAG, tags |-> <<>>,
         relationships |-> <<>>]

\* the relationship createTags pushes onto a tag for a resource that carries it
tagRelationship(resource) ==
    [relationshipName |-> IS_ASSOCIATED_WITH, resourceId |-> resource.resourceId,
     resourceName |-> resource.resourceName, resourceType |-> resource.resourceType,
     awsRegion |-> resource.awsRegion]

\* the forEach of createTags over the tags of one resource; acc is the Map
\* in insertion order
RECURSIVE addTags(_, _, _)
addTags(acc, resource, tags) ==
    IF tags = <<>> THEN acc
    ELSE LET tag == createTag(resource.accountId, Head(tags))
             at == {i \in 1..Len(acc) : acc[i].id = tag.id}
             rel == tagRelationship(resource)
         IN  addTags(IF at = {}
                     THEN Append(acc, merge(tag, [relationships |-> <<rel>>]))
                     ELSE [acc EXCEPT ![Min(at)] =
                             merge(@, [relationships |-> Append(@.relationships, rel)])],
                     resource, Tail(tags))

RECURSIVE reduceTags(_, _)
reduceTags(acc, resources_) ==
    IF resources_ = <<>> THEN acc
    ELSE reduceTags(addTags(acc, Head(resources_),
                            IF "tags" \in DOMAIN Head(resources_) THEN Head(resources_).tags
                            ELSE <<>>),
                    Tail(resources_))

createTags(resources_) == reduceTags(<<>>, resources_)

\* the tags a resource may carry: its keys are distinct
tagLists ==
    {<<>>, <<[key |-> "env", value |-> "prod"]>>, <<[key |-> "env", value |-> "dev"]>>,
     <<[key |-> "env", value |-> "prod"], [key |-> "team", value |-> "a"]>>}

taggedResource(id, accountId, tags) ==
    [id |-> id, resourceId |-> id, resourceName |-> id, resourceType |-> AWS_EC2_INSTANCE,
     accountId |-> accountId, awsRegion |-> 1, tags |-> tags, relationships |-> <<>>]

InitTags ==
    /\ tagPc = "createTags"
    /\ \E n \in 1..MaxTagged :
         \E accountId \in [1..n -> AccountIds], tags \in [1..n -> tagLists] :
            taggedResources = [k \in 1..n |-> taggedResource(k, accountId[k], tags[k])]
    /\ tagResources = <<>>
    /\ CrawlIdle
    /\ PaginatorIdle
    /\ QueryIdle
    /\ MutexIdle
    /\ AccountsIdle
    /\ PipelineIdle
    /\ ProjectIdle
    /\ DiscoverIdle
    /\ EnvIdle
    /\ NormIdle
    /\ StageIdle

\* const tags = createTags(resourcesCopy)
CreateTags ==
    /\ tagPc = "createTags"
    /\ tagResources' = createTags(taggedResources)
    /\ tagPc' = "done"
    /\ UNCHANGED taggedResources
    /\ UNCHANGED <<crawlVars, paginatorVars, queryVars, mutexVars, accountVars, pipelineVars,
                   projectVars, discoverVars, envVars, normVars, stageVars>>

NextTags == CreateTags

SpecTags == InitTags /\ [][NextTags]_vars

\* ------------------------------------------------------------------------
\* addIndividualRelationships: one work item of the promise pool per resource
\* ------------------------------------------------------------------------
MaxEcsTasks == 2

Concurrency == 30

AWS_ECS_CLUSTER == "AWS::ECS::Cluster"

AWS_ECS_TASK_DEFINITION == "AWS::ECS::TaskDefinition"

AWS_EFS_FILE_SYSTEM == "AWS::EFS::FileSystem"

AWS_EFS_ACCESS_POINT == "AWS::EFS::AccessPoint"

AWS_EC2_NAT_GATEWAY == "AWS::EC2::NatGateway"

AWS_EC2_VPC_ENDPOINT == "AWS::EC2::VPCEndpoint"

ENI_NAT_GATEWAY_INTERFACE_TYPE == "nat_gateway"

ENI_ALB_DESCRIPTION_PREFIX == "ELB app"

ENI_VPC_ENDPOINT_INTERFACE_TYPE == "vpc_endpoint"

ENI_SEARCH_REQUESTER_ID == "amazon-elasticsearch"

LAMBDA_ == "lambda"

SUBNET == "Subnet"

SUBNET_ID == "subnetId"

NETWORK_INTERFACE_ID == "networkInterfaceId"

IS_ATTACHED_TO_ == <<"Is", " ", "attached", " ", "to", " ">>

\* strings are numbers: the arn of the k-th task, network interface and task
\* definition, and the resource id that goes with an arn
taskArn(k) == 400 + k

networkInterfaceArn(k) == 500 + k

definitionArn(k) == 600 + k

resourceIdOf(arn) == 1000 + arn

\* createRelationship(IS_ATTACHED_TO)(resourceType, {resourceId})
createAttachedRelationship(resourceType, resourceId) ==
    [relationshipName |-> IS_ATTACHED_TO_, resourceType |-> resourceType,
     resourceId |-> resourceId]

\* createArnRelationship(IS_ATTACHED_TO, arn)
createAttachedArnRelationship(arn) ==
    [relationshipName |-> IS_ATTACHED_TO_, arn |-> arn]

\* createRelationship(IS_CONTAINED_IN)(resourceType, {arn})
createContainedInRelationship(resourceType, arn) ==
    [relationshipName |-> IS_CONTAINED_IN_, arn |-> arn, resourceType |-> resourceType]

\* createRelationship(IS_CONTAINED_IN + SUBNET, AWS_EC2_SUBNET, {resourceId})
createContainedInSubnetRelationship(resourceId) ==
    [relationshipName |-> Append(IS_CONTAINED_IN_, SUBNET), resourceType |-> AWS_EC2_SUBNET,
     resourceId |-> resourceId]

\* createRelationship(IS_ASSOCIATED_WITH)(resourceType, {resourceId})
createAssociatedIdRelationship(resourceType, resourceId) ==
    [relationshipName |-> IS_ASSOCIATED_WITH, resourceType |-> resourceType,
     resourceId |-> resourceId]

\* R.reject(R.isNil, list)
rejectNil(list) == FilterSeq(list, {x \in Range(list) : x # Nil})

\* a push of a handler: the resource whose list it lands on, and what lands
pushesOnto(id, relationships_) ==
    [k \in 1..Len(relationships_) |-> [target |-> id, relationship |-> relationships_[k]]]

\* Array.prototype.push, one relationship after the other
RECURSIVE applyPushes(_, _)
applyPushes(resourceMap_, pushes) ==
    IF pushes = <<>> THEN resourceMap_
    ELSE applyPushes([resourceMap_ EXCEPT ![Head(pushes).target].relationships =
                                            Append(@, Head(pushes).relationship)],
                     Tail(pushes))

\* the lists a handler mutated
pushTargets(pushes) == {pushes[k].target : k \in 1..Len(pushes)}

\* acc[name] = value on an object kept as the array of its entries: a key that
\* is there keeps its place, a new key goes last
assign(obj, name, value) ==
    IF \E i \in 1..Len(obj) : obj[i][1] = name
    THEN [i \in 1..Len(obj) |-> IF obj[i][1] = name THEN <<name, value>> ELSE obj[i]]
    ELSE Append(obj, <<name, value>>)

\* Environment.reduce((acc, {Name, Value}) => {acc[Name] = Value; return acc}, {})
RECURSIVE reduceEnvironment(_, _)
reduceEnvironment(acc, Environment) ==
    IF Environment = <<>> THEN acc
    ELSE reduceEnvironment(assign(acc, Head(Environment).Name, Head(Environment).Value),
                           Tail(Environment))

\* {...envVarObj, ...overridesObj} with overridesObj reduced from environment
RECURSIVE reduceOverrides(_, _)
reduceOverrides(acc, environment) ==
    IF environment = <<>> THEN acc
    ELSE reduceOverrides(assign(acc, Head(environment).name, Head(environment).value),
                         Tail(environment))

\* Object.values(variables)
objectValues(obj) == [i \in 1..Len(obj) |-> obj[i][2]]

\* the variables of each container name: R.groupBy keeps the names in the
\* order they first appear, R.head takes the first definition and the first
\* override of a name
environmentVariables(ContainerDefinitions, containerOverrides) ==
    LET firsts == {i \in 1..Len(ContainerDefinitions) :
                      \A j \in 1..(i - 1) :
                          ContainerDefinitions[j].Name # ContainerDefinitions[i].Name}
        order == SortedSeq(firsts)
        overrideOf(name) ==
            LET mine == {j \in 1..Len(containerOverrides) : containerOverrides[j].name = name}
            IN  IF mine = {} THEN <<>> ELSE containerOverrides[Min(mine)].environment
    IN  [k \in 1..Len(order) |->
            LET definition == ContainerDefinitions[order[k]]
            IN  reduceOverrides(reduceEnvironment(<<>>, definition.Environment),
                                overrideOf(definition.Name))]

\* the relationships of the variables of every container, in order
RECURSIVE allEnvironmentRelationships(_, _, _, _)
allEnvironmentRelationships(resourceMap_, resources_, resource, variablesList) ==
    IF variablesList = <<>> THEN <<>>
    ELSE createEnvironmentVariableRelationships(resourceMap_,
             envVarIdentifierMapOf(resources_, EmptyMap), endpointMapOf(resources_, EmptyMap),
             resource.accountId, resource.awsRegion, objectValues(Head(variablesList)))
         \o allEnvironmentRelationships(resourceMap_, resources_, resource, Tail(variablesList))

RECURSIVE createEcsEfsRelationships(_)
createEcsEfsRelationships(volumes) ==
    IF volumes = <<>> THEN <<>>
    ELSE LET volume == Head(volumes)
             found ==
                IF "EfsVolumeConfiguration" \notin DOMAIN volume THEN <<>>
                ELSE IF /\ "AuthorizationConfig" \in DOMAIN volume.EfsVolumeConfiguration
                        /\ Get(volume.EfsVolumeConfiguration.AuthorizationConfig,
                               "AccessPointId") # Nil
                THEN <<createAssociatedIdRelationship(AWS_EFS_ACCESS_POINT,
                          volume.EfsVolumeConfiguration.AuthorizationConfig.AccessPointId)>>
                ELSE <<createAssociatedIdRelationship(AWS_EFS_FILE_SYSTEM,
                          volume.EfsVolumeConfiguration.FileSystemId)>>
         IN  found \o createEcsEfsRelationships(Tail(volumes))

\* a variant that finds a network interface of the account and region
\* whatever id the attachment names
getAnyNetworkInterfaceId(resourceIdentifierToIdMap, value, accountId, awsRegion) ==
    LET keys == {k \in DOMAIN resourceIdentifierToIdMap :
                    /\ k[1] = AWS_EC2_NETWORK_INTERFACE
                    /\ k[3] = accountId
                    /\ k[4] = awsRegion}
    IN  IF keys = {} THEN Nil
        ELSE resourceIdentifierToIdMap[CHOOSE k \in keys : TRUE]

\* resourceIdentifierToIdMap.get(createResourceIdKey({resourceId: value,
\* resourceType: AWS_EC2_NETWORK_INTERFACE, accountId, awsRegion}))
getNetworkInterfaceId(resourceIdentifierToIdMap, value, accountId, awsRegion) ==
    Get(resourceIdentifierToIdMap,
        createResourceIdKey(AWS_EC2_NETWORK_INTERFACE, value, accountId, awsRegion))

\* details.forEach of one attachment of a task
RECURSIVE detailPushes(_, _, _, _)
detailPushes(resourceMap_, resourceIdentifierToIdMap, task, details) ==
    IF details = <<>> THEN <<>>
    ELSE LET name == Head(details).name
             value == Head(details).value
             subnetArn == Get(resourceIdentifierToIdMap,
                              createResourceIdKey(AWS_EC2_SUBNET, value, task.accountId,
                                                  task.awsRegion))
             vpcId == IF subnetArn \in DOMAIN resourceMap_
                      THEN Get(resourceMap_[subnetArn].configuration, "vpcId")
                      ELSE Nil
             networkInterfaceId == getNetworkInterfaceId(resourceIdentifierToIdMap, value,
                                                         task.accountId, task.awsRegion)
             found ==
                IF name = SUBNET_ID
                THEN pushesOnto(task.id,
                        (IF vpcId # Nil THEN <<createContainedInVpcRelationship(vpcId)>>
                         ELSE <<>>) \o <<createContainedInSubnetRelationship(value)>>)
                ELSE IF name = NETWORK_INTERFACE_ID /\ networkInterfaceId \in DOMAIN resourceMap_
                THEN pushesOnto(networkInterfaceId,
                        <<createAttachedRelationship(AWS_ECS_TASK, task.resourceId)>>)
                ELSE <<>>
         IN  found \o detailPushes(resourceMap_, resourceIdentifierToIdMap, task, Tail(details))

\* attachments.forEach
RECURSIVE attachmentPushes(_, _, _, _)
attachmentPushes(resourceMap_, resourceIdentifierToIdMap, task, attachments) ==
    IF attachments = <<>> THEN <<>>
    ELSE detailPushes(resourceMap_, resourceIdentifierToIdMap, task, Head(attachments).details)
         \o attachmentPushes(resourceMap_, resourceIdentifierToIdMap, task, Tail(attachments))

\* handlers[AWS_ECS_TASK]: every push of the handler, in order
ecsTaskHandler(resourceMap_, resources_, task) ==
    LET configuration == task.configuration
        taskDefinition ==
            IF configuration.taskDefinitionArn \in DOMAIN resourceMap_
            THEN resourceMap_[configuration.taskDefinitionArn]
            ELSE [configuration |-> [ContainerDefinitions |-> <<>>, Volumes |-> <<>>]]
        overrides == configuration.overrides
        roleArns == rejectNil(<<Get(overrides, "taskRoleArn"), Get(overrides, "executionRoleArn")>>)
        definitionRoleArns ==
            rejectNil(<<Get(taskDefinition.configuration, "TaskRoleArn"),
                        Get(taskDefinition.configuration, "ExecutionRoleArn")>>)
        pushedRoleArns == IF roleArns = <<>> THEN definitionRoleArns ELSE roleArns
        roleRels == [k \in 1..Len(pushedRoleArns) |->
                        createAssociatedRelationship(AWS_IAM_ROLE, pushedRoleArns[k])]
        variablesList == environmentVariables(taskDefinition.configuration.ContainerDefinitions,
                                              overrides.containerOverrides)
    IN  pushesOnto(task.id,
            <<createContainedInRelationship(AWS_ECS_CLUSTER, configuration.clusterArn)>>
            \o roleRels
            \o allEnvironmentRelationships(resourceMap_, resources_, task, variablesList)
            \o createEcsEfsRelationships(taskDefinition.configuration.Volumes))
        \o attachmentPushes(resourceMap_, identifierMapOf(resources_, EmptyMap), task,
                            configuration.attachments)

\* handlers[AWS_ECS_TASK_DEFINITION]: the variables of every container
ecsTaskDefinitionHandler(resourceMap_, resources_, resource) ==
    LET definitions == resource.configuration.ContainerDefinitions
        variablesList == [k \in 1..Len(definitions) |->
                             reduceEnvironment(<<>>, definitions[k].Environment)]
    IN  pushesOnto(resource.id,
            allEnvironmentRelationships(resourceMap_, resources_, resource, variablesList))

\* createEniRelationship: the description is kept parsed, as the prefix it
\* starts with and the id or arn it names
createEniRelationship(configuration) ==
    IF configuration.interfaceType = ENI_NAT_GATEWAY_INTERFACE_TYPE
    THEN createAttachedRelationship(AWS_EC2_NAT_GATEWAY, configuration.description.names)
    ELSE IF configuration.description.prefix = ENI_ALB_DESCRIPTION_PREFIX
    THEN createAttachedArnRelationship(configuration.description.names)
    ELSE IF configuration.interfaceType = ENI_VPC_ENDPOINT_INTERFACE_TYPE
    THEN createAttachedRelationship(AWS_EC2_VPC_ENDPOINT, configuration.description.names)
    ELSE IF configuration.requesterId = ENI_SEARCH_REQUESTER_ID
    THEN createAttachedArnRelationship(configuration.description.names)
    ELSE IF configuration.interfaceType = LAMBDA_
    THEN createAttachedRelationship(AWS_LAMBDA_FUNCTION, configuration.description.names)
    ELSE [resourceId |-> UNKNOWN]

\* handlers[AWS_EC2_NETWORK_INTERFACE]
networkInterfaceHandler(eni) ==
    LET relationship == createEniRelationship(eni.configuration)
    IN  IF Get(relationship, "resourceId") # UNKNOWN
        THEN pushesOnto(eni.id, <<relationship>>)
        ELSE <<>>

\* handlers[resource.resourceType](resource)
handlerPushes(resourceMap_, resources_, resource) ==
    IF resource.resourceType = AWS_ECS_TASK
    THEN ecsTaskHandler(resourceMap_, resources_, resource)
    ELSE IF resource.resourceType = AWS_ECS_TASK_DEFINITION
    THEN ecsTaskDefinitionHandler(resourceMap_, resources_, resource)
    ELSE IF resource.resourceType = AWS_EC2_NETWORK_INTERFACE
    THEN networkInterfaceHandler(resource)
    ELSE <<>>

\* resource.relationships.push(...allRels) of a schema handler: the schema
\* files are data kept outside the code, so what a descriptor yields is open
schemaPushes(resource, allRels) == pushesOnto(resource.id, allRels)

\* the resources array: in the order of the ids
resourcesArrayOf(resourceMap_) ==
    LET order == SortedSeq(DOMAIN resourceMap_)
    IN  [k \in 1..Len(order) |-> resourceMap_[order[k]]]

stageResource(id, resourceType, configuration) ==
    [id |-> id, arn |-> id, resourceType |-> resourceType, resourceId |-> resourceIdOf(id),
     resourceName |-> Nil, accountId |-> 1, awsRegion |-> 1, endpoint |-> Nil,
     configuration |-> configuration, relationships |-> <<>>]

\* the overrides of a task: none, or a task role and the variables of a container
noOverrides == [containerOverrides |-> <<>>]

someOverrides ==
    [taskRoleArn |-> envArn(0),
     containerOverrides |-> <<[name |-> "app",
                               environment |-> <<[name |-> "TARGET", value |-> envName(0)]>>]>>]

\* the attachments of a task: the network interface of the snapshot and its
\* subnet, or a network interface that is in the snapshot no more
liveAttachments ==
    <<[details |-> <<[name |-> SUBNET_ID, value |-> resourceIdOf(0)],
                     [name |-> NETWORK_INTERFACE_ID,
                      value |-> resourceIdOf(networkInterfaceArn(1))]>>]>>

staleAttachments ==
    <<[details |-> <<[name |-> NETWORK_INTERFACE_ID,
                      value |-> resourceIdOf(networkInterfaceArn(0))]>>]>>

\* what a task may look like: <<overrides, attachments>>
taskShapes ==
    {<<noOverrides, <<>>>>, <<someOverrides, liveAttachments>>, <<noOverrides, staleAttachments>>}

ecsTask(k, overrides, attachments) ==
    stageResource(taskArn(k), AWS_ECS_TASK,
        [clusterArn |-> envArn(0), taskDefinitionArn |-> definitionArn(1),
         overrides |-> overrides, attachments |-> attachments])

\* the network interface: of a Lambda function, or of something
\* createEniRelationship does not recognise
networkInterfaces ==
    {stageResource(networkInterfaceArn(1), AWS_EC2_NETWORK_INTERFACE,
        [interfaceType |-> t, requesterId |-> "", description |-> [prefix |-> "", names |-> envName(0)]]) :
        t \in {LAMBDA_, "interface"}}

\* the task definition of the tasks: one container, whose variable holds the
\* arn of the network interface, and an EFS volume
ecsTaskDefinition ==
    stageResource(definitionArn(1), AWS_ECS_TASK_DEFINITION,
        [TaskRoleArn |-> envArn(0),
         ContainerDefinitions |->
            <<[Name |-> "app",
               Environment |-> <<[Name |-> "TARGET", Value |-> networkInterfaceArn(1)]>>]>>,
         Volumes |-> <<[EfsVolumeConfiguration |-> [FileSystemId |-> envName(0)]]>>])

InitStage ==
    /\ \E tasks \in [1..MaxEcsTasks -> taskShapes],
          eni \in networkInterfaces,
          definitions \in {{}, {ecsTaskDefinition}} :
         LET all == {ecsTask(k, tasks[k][1], tasks[k][2]) : k \in 1..MaxEcsTasks}
                        \cup {eni} \cup definitions
         IN  stageResources = [id \in {r.id : r \in all} |-> CHOOSE r \in all : r.id = id]
    /\ schemaTypes \in SUBSET {AWS_ECS_TASK, AWS_EC2_NETWORK_INTERFACE}
    /\ itemState = [id \in DOMAIN stageResources |-> "queued"]
    /\ writers = [id \in DOMAIN stageResources |-> {}]
    /\ CrawlIdle
    /\ PaginatorIdle
    /\ QueryIdle
    /\ MutexIdle
    /\ AccountsIdle
    /\ PipelineIdle
    /\ ProjectIdle
    /\ DiscoverIdle
    /\ EnvIdle
    /\ NormIdle
    /\ TagIdle

UnchangedByStage ==
    UNCHANGED <<crawlVars, paginatorVars, queryVars, mutexVars, accountVars, pipelineVars,
                projectVars, discoverVars, envVars, normVars, tagVars>>

\* the handler of a work item runs to its end without a pause: its pushes
\* land, and the work item is noted on every list it pushed onto
RunHandler(id) ==
    LET pushes == handlerPushes(stageResources, resourcesArrayOf(stageResources),
                                stageResources[id])
    IN  /\ stageResources' = applyPushes(stageResources, pushes)
        /\ writers' = [r \in DOMAIN writers |->
                          IF r \in pushTargets(pushes) THEN writers[r] \cup {id}
                          ELSE writers[r]]
        /\ itemState' = [itemState EXCEPT ![id] = "done"]

\* the pool takes the next resource of the array when fewer than Concurrency
\* work items are under way; the callback runs up to its first pause: in the
\* schema handler when the resource type has one, else at the handler's end
ProcessResource(id) ==
    /\ id \in DOMAIN itemState
    /\ itemState[id] = "queued"
    /\ \A other \in DOMAIN itemState : other < id => itemState[other] # "queued"
    /\ Cardinality({other \in DOMAIN itemState :
                        itemState[other] \in {"schema", "handler"}}) < Concurrency
    /\ IF stageResources[id].resourceType \in schemaTypes
       THEN /\ itemState' = [itemState EXCEPT ![id] = "schema"]
            /\ UNCHANGED <<stageResources, writers>>
       ELSE RunHandler(id)
    /\ UNCHANGED schemaTypes
    /\ UnchangedByStage

\* the schema handler resumes after its SDK calls and pushes what its
\* descriptors yielded onto the resource it was called with
SchemaHandler(id) ==
    /\ id \in DOMAIN itemState
    /\ itemState[id] = "schema"
    /\ LET allRels == <<createAssociatedRelationship(AWS_IAM_ROLE, envArn(0))>>
           pushes == schemaPushes(stageResources[id], allRels)
       IN  /\ stageResources' = applyPushes(stageResources, pushes)
           /\ writers' = [r \in DOMAIN writers |->
                             IF r \in pushTargets(pushes) THEN writers[r] \cup {id}
                             ELSE writers[r]]
    /\ itemState' = [itemState EXCEPT ![id] = "handler"]
    /\ UNCHANGED schemaTypes
    /\ UnchangedByStage

\* the callback resumes after the schema handler and runs the handler
Handler(id) ==
    /\ id \in DOMAIN itemState
    /\ itemState[id] = "handler"
    /\ RunHandler(id)
    /\ UNCHANGED schemaTypes
    /\ UnchangedByStage

StageIds ==
    {taskArn(k) : k \in 1..MaxEcsTasks} \cup {networkInterfaceArn(1), definitionArn(1)}

NextStage ==
    \/ \E id \in StageIds : ProcessResource(id)
    \/ \E id \in StageIds : SchemaHandler(id)
    \/ \E id \in StageIds : Handler(id)

SpecStage == InitStage /\ [][NextStage]_vars

\* ------------------------------------------------------------------------
\* Properties
\* ------------------------------------------------------------------------
\* ids a store took in during a phase: accepted by the search index, or passed
\* to a graph-store mutation that succeeded
writtenTo(op, phase) ==
    UNION {IF c.op = "search" THEN c.batch \ c.unprocessed ELSE c.items :
             c \in {d \in calls : d.op = op /\ d.phase = phase /\ d.result = "ok"}}

idsOf(seq) == {seq[i].id : i \in 1..Len(seq)}

\* C1: for every batch of the store, update and delete processors, the items
\* passed to the graph-store mutation are among the items of that batch the
\* search-index mutation accepted; nothing reported unprocessed is sent.
C1_GraphWritesSubsetOfSearchAccepted ==
    \A c \in calls :
        c.op = "graph" =>
            \E sc \in calls :
                /\ sc.op = "search" /\ sc.phase = c.phase /\ sc.batch = c.batch
                /\ sc.result = "ok"
                /\ c.items \subseteq (sc.batch \ sc.unprocessed)
                /\ c.items \cap sc.unprocessed = {}

C1_Witness ==
    \E c \in calls, sc \in calls :
        /\ c.op = "graph" /\ sc.op = "search" /\ sc.phase = c.phase /\ sc.batch = c.batch
        /\ sc.unprocessed # {}
        /\ c.items # {}

\* C2: after persistence the reconciled set is the projected working set
\* without the ids of failedStores and with every id of failedDeletes present
\* with the value read from the store at the start; for a store batch of which
\* the search index rejects some, exactly the accepted ones are sent to (and,
\* the mutation succeeding, written to) the graph store, and the rejected ids
\* are in failedStores and not in the reconciled set.
C2_ReconciledSet ==
    pc = "done" =>
        /\ DOMAIN reconciled =
              (idsOf(resources) \ Range(failures.failedStores)) \cup Range(failures.failedDeletes)
        /\ \A id \in Range(failures.failedDeletes) : reconciled[id] = dbResourcesMap[id]
        /\ \A id \in DOMAIN reconciled \ Range(failures.failedDeletes) :
              \E i \in 1..Len(resources) : resources[i].id = id /\ reconciled[id] = resources[i]
        /\ \A sc \in calls :
              (sc.op = "search" /\ sc.phase = "storeResources" /\ sc.result = "ok") =>
                 /\ \E c \in calls :
                       /\ c.op = "graph" /\ c.phase = sc.phase /\ c.batch = sc.batch
                       /\ c.items = sc.batch \ sc.unprocessed
                       /\ c.result = "ok" => c.items \subseteq DOMAIN graphStore
                 /\ sc.unprocessed \subseteq Range(failures.failedStores)
                 /\ sc.unprocessed \cap DOMAIN reconciled = {}

\* a store batch of 10 of which the index rejected 3 and the graph store took
\* the other 7, in a crawl in which a delete failed as well
C2_Witness ==
    /\ pc = "done"
    /\ failures.failedDeletes # <<>>
    /\ \E sc \in calls, c \in calls :
        /\ sc.op = "search" /\ sc.phase = "storeResources" /\ sc.result = "ok"
        /\ Cardinality(sc.batch) = 10 /\ Cardinality(sc.unprocessed) = 3
        /\ c.op = "graph" /\ c.phase = sc.phase /\ c.batch = sc.batch /\ c.result = "ok"
        /\ Cardinality(c.items) = 7
        /\ Cardinality(Range(failures.failedStores)) = 3

\* C3 (as claimed): every id of failedStores was written neither to the search
\* index nor to the graph store during storeResources.
C3_FailedStoresInNeitherStore ==
    pc = "done" =>
        Range(failures.failedStores) \cap
            (writtenTo("search", "storeResources") \cup writtenTo("graph", "storeResources")) = {}

\* C3 (amended): no id of failedStores was written to the graph store during
\* storeResources; one that the search index took in during that phase is in
\* failedStores only because the graph-store mutation of its batch failed.
C3_FailedStoresNotInGraph ==
    pc = "done" =>
        /\ Range(failures.failedStores) \cap writtenTo("graph", "storeResources") = {}
        /\ Range(failures.failedStores) \cap DOMAIN graphStore = {}
        /\ \A id \in Range(failures.failedStores) \cap writtenTo("search", "storeResources") :
              \E c \in calls :
                 /\ c.op = "graph" /\ c.phase = "storeResources" /\ id \in c.batch
                 /\ c.result = "error"

C3_Witness ==
    /\ pc = "done"
    /\ \E id \in Range(failures.failedStores) : id \in writtenTo("search", "storeResources")
    /\ \E id \in Range(failures.failedStores) : id \notin writtenTo("search", "storeResources")

deltaIds ==
    idsOf(deltas.resourcesToStore) \cup idsOf(deltas.resourcesToUpdate)
        \cup (DOMAIN dbResourcesMap \ Range(deltas.resourceIdsToDelete))

\* C4 (as claimed): in every crawl the ids of resourcesToStore, resourcesToUpdate
\* and dbResources \ resourceIdsToDelete are exactly the ids of the reconciled
\* working set.
C4_DeltaIdsAreReconciledIds ==
    pc = "done" => deltaIds = DOMAIN reconciled

\* C4 (amended): those ids are exactly the ids of the projected working set the
\* deltas were computed from; the reconciled set has these ids without
\* failedStores and with failedDeletes, so the two sets of ids are equal
\* exactly when no store and no delete failed.
C4_DeltaIdsAreWorkingSetIds ==
    /\ pc # "start" => deltaIds = idsOf(resources)
    /\ pc = "done" =>
          /\ DOMAIN reconciled =
                (deltaIds \ Range(failures.failedStores)) \cup Range(failures.failedDeletes)
          /\ (deltaIds = DOMAIN reconciled) <=>
                (failures.failedStores = <<>> /\ failures.failedDeletes = <<>>)

C4_Witness ==
    /\ pc = "done"
    /\ failures.failedStores # <<>>
    /\ failures.failedDeletes # <<>>
    /\ deltas.resourcesToUpdate # <<>>


\* C7: a resource of a type in the hash set that has a stored copy is in
\* resourcesToUpdate if and only if its md5Hash differs from the stored
\* md5Hash, whatever the capture times and supplementary configurations are.
C7_HashTypesUpdateIffHashDiffers ==
    pc # "start" =>
        \A i \in 1..Len(resources) :
            resources[i].resourceType \in resourceTypesToHash =>
                IF resources[i].id \in DOMAIN dbResourcesMap
                THEN (resources[i].id \in idsOf(deltas.resourcesToUpdate))
                        <=> (resources[i].md5Hash # dbResourcesMap[resources[i].id].md5Hash)
                ELSE resources[i].id \notin idsOf(deltas.resourcesToUpdate)

\* a hash-set resource left out of the updates although its capture time
\* differs from the stored one and its supplementary configuration is new
C7_Witness ==
    /\ pc # "start"
    /\ \E i \in 1..Len(resources) :
        LET r == resources[i] IN
        /\ r.resourceType \in resourceTypesToHash
        /\ r.id \in DOMAIN dbResourcesMap
        /\ r.md5Hash = dbResourcesMap[r.id].md5Hash
        /\ Get(r.properties, "configurationItemCaptureTime")
              # Get(dbResourcesMap[r.id].properties, "configurationItemCaptureTime")
        /\ Get(dbResourcesMap[r.id].properties, "supplementaryConfiguration") = Nil
        /\ Get(r.properties, "supplementaryConfiguration") # Nil
        /\ r.id \notin idsOf(deltas.resourcesToUpdate)

\* the links the working set projects to
configLinksOf(rs) ==
    Range(flatLinks(rs, createLookUpMaps(rs).resourceIdentifierToIdMap,
                    createLookUpMaps(rs).resourcesMap))

\* C8: no link of linksToAdd and no stored link selected into linksToDelete
\* has the unknown sentinel as its target (nor as its source).
C8_NoUnknownInLinkDiff ==
    pc # "start" =>
        /\ \A l \in Range(deltas.linksToAdd) : l.target # UNKNOWN /\ l.source # UNKNOWN
        /\ \A l \in Range(deltas.linksToDelete) : l.target # UNKNOWN /\ l.source # UNKNOWN

\* both sides of the diff had a link to unknown to leave out, and both lists
\* are non-empty
C8_Witness ==
    /\ pc # "start"
    /\ \E l \in configLinksOf(resources) : l.target = UNKNOWN /\ l \notin Range(dbLinksMap)
    /\ \E l \in Range(dbLinksMap) : l.target = UNKNOWN /\ l \notin configLinksOf(resources)
    /\ deltas.linksToAdd # <<>>
    /\ deltas.linksToDelete # <<>>


\* C9: after a size error for the window [start, start + p) the next request
\* is [start, start + floor(p / 2)); after a successful read the next request
\* begins where the window just read ended and spans PAGE_SIZE again.
C9_HalveAndReplayThenReset ==
    pgState = "request" =>
        /\ last.outcome \in {"payloadTooLarge", "resolverCodeSize"} =>
              /\ start = last.start
              /\ end = last.start + ((last.end - last.start) \div 2)
        /\ last.outcome = "ok" =>
              /\ start = last.end
              /\ end = start + PAGE_SIZE

\* the read of 0..500 that replayed the failed 0..1000 succeeded and the next
\* request is 500..1500
C9_Witness ==
    /\ pgState = "request"
    /\ last = [start |-> 0, end |-> 500, outcome |-> "ok"]
    /\ start = 500
    /\ end = 1500

\* the attempts all failed with the connection-closed error
onlyConnectionClosed == \A i \in 1..Len(attempts) : attempts[i] = "connectionClosedPrematurely"

\* C10 (as claimed): a connection-closed error triggers one retry and, if the
\* error repeats, no further attempt is made.
C10_OneRetryOnly ==
    onlyConnectionClosed => Len(attempts) + (IF inAttempt THEN 1 ELSE 0) <= 2

\* C10 (amended): a connection-closed error is retried up to `retries` (3)
\* times: while fewer than 4 attempts have been made another attempt follows,
\* and the query is rejected with that error only after the 4th attempt.
C10_RetriedUpToRetries ==
    /\ Len(attempts) + (IF inAttempt THEN 1 ELSE 0) <= retries + 1
    /\ (attempts # <<>> /\ onlyConnectionClosed) =>
          IF Len(attempts) < retries + 1
          THEN inAttempt /\ settled = "pending"
          ELSE ~inAttempt /\ settled = "rejected"
                  /\ queryError = "connectionClosedPrematurely"

C10_Witness ==
    /\ Len(attempts) = retries + 1
    /\ onlyConnectionClosed
    /\ settled = "rejected"


\* C5: at most one instance of the discovery task is past the inventory check
\* at any time, and an instance whose probe counted more than one task of the
\* discovery task definition never reads or writes the stores.
C5_AtMostOneCrawling ==
    /\ Cardinality({t \in Tasks : taskState[t] = "crawling"}) <= 1
    /\ \A t \in Tasks : (seen[t] # Nil /\ seen[t] > 1) => (~touched[t] /\ taskState[t] # "crawling")

\* one instance crawls while another, of another version of the definition,
\* has been stopped by its probe
C5_Witness ==
    \E t \in Tasks, u \in Tasks :
        /\ taskState[t] = "crawling" /\ touched[t]
        /\ seen[u] # Nil /\ seen[u] > 1 /\ taskState[u] = "exited"
        /\ taskDefinitionArn[t] # taskDefinitionArn[u]

\* the lastCrawled the store held for the account when the crawl read it
previousLastCrawled(id) == IF id \in DOMAIN dbAccounts THEN dbAccounts[id].lastCrawled ELSE Nil

\* C6: the add-account and update-account mutations send the crawl's new
\* timestamp exactly for the accounts whose isIamRoleDeployed is true; for an
\* account whose isIamRoleDeployed is false they send the lastCrawled that was
\* stored before, and the stored lastCrawled of such an account is not advanced
C6_LastCrawledOnlyWhenRoleDeployed ==
    /\ \A op \in {"addAccounts", "updateAccount"} :
         \A id \in DOMAIN accountCalls[op] :
            LET sent == accountCalls[op][id]
            IN  /\ sent.isIamRoleDeployed => sent.lastCrawled = crawlTime
                /\ ~sent.isIamRoleDeployed => sent.lastCrawled = previousLastCrawled(id)
    /\ apc = "done" =>
         \A id \in DOMAIN accounts \cap DOMAIN accountStore :
            ~accounts[id].isIamRoleDeployed =>
                accountStore[id].lastCrawled = previousLastCrawled(id)

\* an update was sent for a crawled account without the role, and another
\* account had its timestamp advanced
C6_Witness ==
    /\ apc = "done"
    /\ \E id \in DOMAIN accountCalls.updateAccount :
         /\ ~accountCalls.updateAccount[id].isIamRoleDeployed
         /\ accountCalls.updateAccount[id].lastCrawled = 1
         /\ accountStore[id].lastCrawled = 1
    /\ \E op \in {"addAccounts", "updateAccount"} :
         \E id \in DOMAIN accountCalls[op] :
            /\ accountCalls[op][id].isIamRoleDeployed
            /\ id \in DOMAIN accountStore
            /\ accountStore[id].lastCrawled = crawlTime

\* the two errors that ask for a smaller page
sizeErrors == {"resolverCodeSize", "payloadTooLarge"}

C12_StrictPhaseOrder == plEarly = {}

\* C12 (amended): the phases are strictly ordered except that normalization
\* and VPC backfill are one pass over the array: a resource is normalised and
\* then backfilled before the next resource is normalised, so the only step
\* that begins with an earlier phase unfinished is a VPC backfill during the
\* normalization pass, and it is never applied to a resource that has not
\* been normalised itself.
C12_OrderedButForFusedPass ==
    /\ plEarly \subseteq {<<"vpcBackfill", "normalization">>}
    /\ plPhase # "idle" =>
          /\ plUnfinished["normalization"] \subseteq plUnfinished["vpcBackfill"]
          /\ Cardinality(plUnfinished["vpcBackfill"] \ plUnfinished["normalization"]) <= 1
          /\ \A i \in 1..Len(pipelinePhases) :
                (plUnfinished[pipelinePhases[i]] # {} /\ pipelinePhases[i] # "vpcBackfill") =>
                    \A j \in (i + 1)..Len(pipelinePhases) :
                        pipelinePhases[j] # "vpcBackfill" => plRunning[pipelinePhases[j]] = {}

\* the pipeline ran to its end over more than one resource, the first of
\* which was backfilled while the second was still to be normalised
C12_Witness ==
    /\ plPhase = "done"
    /\ Cardinality(workingSet) > 1
    /\ firstResults # {}
    /\ plEarly = {<<"vpcBackfill", "normalization">>}

\* C13: a process ends with code 0 exactly when its crawl succeeded or its
\* initialiser threw the discovery-process-running sentinel; the sentinel is
\* logged at info level and the task that threw it never reads or writes the
\* stores; every other error that comes out of the crawl ends the process
\* with code 1.
C13_ExitCodes ==
    \A t \in Tasks :
        /\ exitCode[t] # Nil <=> taskState[t] \in {"exited", "gone"}
        /\ exitCode[t] # Nil =>
              /\ exitCode[t] = 0 <=> thrown[t] \in {"none", DISCOVERY_PROCESS_RUNNING}
              /\ exitCode[t] = 1 <=> thrown[t] \in fatalErrors
              /\ thrown[t] = DISCOVERY_PROCESS_RUNNING => (logged[t] = "info" /\ ~touched[t])
              /\ thrown[t] \in fatalErrors => logged[t] = "error"

\* one task was stopped by the sentinel and ended with 0, the task it had
\* counted ended its crawl with an error and 1
C13_Witness ==
    \E u \in Tasks, v \in Tasks :
        /\ thrown[u] = DISCOVERY_PROCESS_RUNNING /\ exitCode[u] = 0 /\ logged[u] = "info"
        /\ thrown[v] \in fatalErrors /\ exitCode[v] = 1 /\ touched[v]

\* the fields of a saved object that identify the resource
identityFields ==
    {"id", "resourceId", "resourceName", "resourceType", "accountId", "arn", "awsRegion",
     "relationships", "tags"}

removedAccounts == IF isUsingOrganizations THEN DOMAIN accountStore \ orgAccounts ELSE {}

\* C14: a resource the aggregator returns for an account that is in the store
\* but no longer in the organization is not in the working set, and its id
\* is in resourceIdsToDelete when the resource was stored
C14_RemovedAccountResourcesDeleted ==
    \A k \in 1..Len(configResources) :
        configResources[k].accountId \in removedAccounts =>
            /\ pc \in {"getAllSdkResources", "createSaveObject", "persist"} =>
                  configResources[k].id \notin idsOf(resources)
            /\ (pc = "persist" /\ configResources[k].id \in DOMAIN dbResourcesMap) =>
                  configResources[k].id \in Range(deltas.resourceIdsToDelete)

\* the deltas were computed for an aggregator result that holds a stored,
\* recorded resource of a removed account in a region the account lists,
\* while another account is discovered in
C14_Witness ==
    /\ pc = "persist"
    /\ DOMAIN accountsMap # {}
    /\ \E k \in 1..Len(configResources) :
          /\ configResources[k].accountId \in removedAccounts
          /\ configResources[k].configurationItemStatus = "OK"
          /\ configResources[k].awsRegion \in Regions
          /\ configResources[k].id \in DOMAIN dbResourcesMap
          /\ configResources[k].id \notin idsOf(resources)
          /\ configResources[k].id \in Range(deltas.resourceIdsToDelete)

\* C15: environment-variable inference creates no edge from a resource to
\* itself and no edge to the public access block of the account
C15_NoSelfEdgeNoPublicAccessBlock ==
    \A id \in DOMAIN envResourceMap :
        \A i \in 1..Len(envResourceMap[id].relationships) :
            /\ envResourceMap[id].relationships[i].arn # id
            /\ envResourceMap[id].relationships[i].resourceType # AWS_S3_ACCOUNT_PUBLIC_ACCESS_BLOCK

\* C16: after the normalization pass every relationship whose target type is
\* in the normalization set has a name that ends with a qualifier of the set
C16_NormalisedNamesQualified ==
    normPc = "done" =>
        \A i \in 1..Len(normResource.relationships) :
            normResource.relationships[i].resourceType \in resourceTypesToNormalizeSet
                => isQualifiedRelationshipName(normResource.relationships[i].relationshipName)

\* C16, as the code has it: the pass skips tag and compliance resources, and
\* it appends the suffix, without a blank, only to a name that does not hold
\* it yet. For the other resources the name of a relationship to a target of
\* the set ends up qualified or holding the suffix of its target; it ends up
\* qualified when it ended with a blank and did not hold the suffix; and the
\* relationship the VPC backfill adds is qualified
C16_NormalisedNamesHoldSuffix ==
    [][(normPc' = "done" /\ normResource.resourceType
                              \notin {AWS_TAGS_TAG, AWS_CONFIG_RESOURCE_COMPLIANCE}) =>
        /\ Len(normResource'.relationships) >= Len(normResource.relationships)
        /\ \A i \in 1..Len(normResource'.relationships) :
              LET new == normResource'.relationships[i]
              IN  IF i > Len(normResource.relationships)
                  THEN isQualifiedRelationshipName(new.relationshipName)
                  ELSE LET old == normResource.relationships[i]
                           suffix == relSuffixOf(old.resourceType)
                       IN  old.resourceType \in resourceTypesToNormalizeSet =>
                             /\ new.resourceType = old.resourceType
                             /\ \/ isQualifiedRelationshipName(new.relationshipName)
                                \/ includesIgnoringCase(new.relationshipName, suffix)
                             /\ (old.relationshipName[Len(old.relationshipName)] = " "
                                   /\ ~includesIgnoringCase(old.relationshipName, suffix))
                                  => isQualifiedRelationshipName(new.relationshipName)]_vars

\* a function whose unqualified relationship to a subnet was given its
\* suffix, and whose containing VPC was inferred from the subnet
C16_Witness ==
    /\ normPc = "done"
    /\ normResource.resourceType = AWS_LAMBDA_FUNCTION
    /\ \E i \in 1..Len(normResource.relationships) :
          /\ normResource.relationships[i].resourceType = AWS_EC2_SUBNET
          /\ normResource.relationships[i].relationshipName = Append(IS_CONTAINED_IN_, "Subnet")
    /\ \E i \in 1..Len(normResource.relationships) :
          normResource.relationships[i] = createContainedInVpcRelationship(1)
    /\ \E i \in 1..Len(normResource.relationships) :
          /\ normResource.relationships[i].resourceType = AWS_IAM_ROLE
          /\ ~isQualifiedRelationshipName(normResource.relationships[i].relationshipName)

\* the resources that carry the tag key=value, and those of them in an account
carriers(tag) ==
    {k \in 1..Len(taggedResources) : tag \in Range(taggedResources[k].tags)}

carriersIn(accountId, tag) == {k \in carriers(tag) : taggedResources[k].accountId = accountId}

allTags == UNION {Range(taggedResources[k].tags) : k \in 1..Len(taggedResources)}

tagsNamed(tag) ==
    {i \in 1..Len(tagResources) : tagResources[i].resourceName = <<tag.key, "=", tag.value>>}

C19_DeniedProbeClearsRoleDeployed ==
    apc \in {"persist", "done"} =>
        \A id \in DOMAIN accounts :
            IF id \in denied THEN accounts[id].isIamRoleDeployed = FALSE
            ELSE \A r \in DOMAIN accounts[id].regions :
                    accounts[id].regions[r].isConfigEnabled \in {"null", "true", "false"}

\* the tasks whose attachments name the network interface r
attachedTasks(r) ==
    {t \in DOMAIN stageResources :
        /\ stageResources[t].resourceType = AWS_ECS_TASK
        /\ stageResources[r].resourceType = AWS_EC2_NETWORK_INTERFACE
        /\ stageResources[t].accountId = stageResources[r].accountId
        /\ stageResources[t].awsRegion = stageResources[r].awsRegion
        /\ \E a \in Range(stageResources[t].configuration.attachments) :
              \E d \in Range(a.details) :
                  d.name = NETWORK_INTERFACE_ID /\ d.value = stageResources[r].resourceId}

\* C20: during per-resource inference the relationship list of a resource is
\* written only by the work item of that resource.
C20_OnlyOwnWorkItemWrites ==
    \A r \in DOMAIN writers : writers[r] \subseteq {r}

\* C20, amended: the relationship list of a resource is written only by the
\* work item of that resource and, when the resource is a network interface,
\* by the work items of the ECS tasks whose attachments name it.
C20_OnlyOwnWorkItemOrAttachedTaskWrites ==
    \A r \in DOMAIN writers : writers[r] \subseteq ({r} \cup attachedTasks(r))

\* a network interface whose list was written by its own work item and by the
\* work item of a task attached to it
C20_Witness ==
    \E r \in DOMAIN writers :
        /\ r \in writers[r]
        /\ writers[r] \cap attachedTasks(r) # {}
        /\ \A id \in DOMAIN itemState : itemState[id] = "done"

\* C21: every edge of linksToAdd that was sent to the graph store has its
\* source and its target resource in the graph store once the resource phases
\* of the crawl have finished; no relationship is stored for a resource whose
\* own store failed.
C21_StoredLinksHaveStoredEndpoints ==
    pc \in LinkPhases \cup {"done"} =>
        \A l \in Range(deltas.linksToAdd) \cap graphLinks :
            /\ l.source \in DOMAIN graphStore
            /\ l.target \in DOMAIN graphStore

\* C22: the paginator never issues a request for an empty window: under any
\* sequence of size errors the page size stays at least 1, so end > start
\* holds for every request.
C22_NoEmptyWindow ==
    /\ pgState = "request" => (pageSize >= 1 /\ end > start)
    /\ last.outcome # "none" => last.end > last.start

\* C25: when instances of the discovery task start at about the same time, at
\* least one of them passes the inventory check and crawls: the check never
\* makes every instance give up.
C25_NotAllGiveUp ==
    ~(\A t \in Tasks : thrown[t] = DISCOVERY_PROCESS_RUNNING /\ ~touched[t])

\* C24: in organization mode every account that is in the store and not in
\* the organization view is passed to the delete-accounts mutation of the
\* same crawl, whatever assuming its trust role gave.
C24_LeftAccountsDeleted ==
    (apc = "done" /\ isUsingOrganizations) =>
        \A id \in DOMAIN dbAccounts \ orgAccounts : id \in accountCalls.deleteAccounts

\* C26: an account whose role assumption was denied access stays in the
\* resolver output with isIamRoleDeployed = false and without credentials; an
\* account whose role assumption failed otherwise is absent from the output;
\* an account whose role was assumed is output with isIamRoleDeployed = true.
C26_AssumeOutcomes ==
    apc \in {"configStatus", "persist", "done"} =>
        \A id \in DOMAIN assumed :
            /\ assumed[id] = "accessDenied" =>
                  /\ id \in DOMAIN accounts
                  /\ accounts[id].isIamRoleDeployed = FALSE
                  /\ "credentials" \notin DOMAIN accounts[id]
            /\ assumed[id] = "error" => id \notin DOMAIN accounts
            /\ assumed[id] = "ok" =>
                  /\ id \in DOMAIN accounts
                  /\ accounts[id].isIamRoleDeployed = TRUE

\* the resolver returned one account that was denied access and dropped one
\* whose role assumption failed otherwise
C26_Witness ==
    /\ apc = "persist"
    /\ \E id \in DOMAIN assumed : assumed[id] = "accessDenied" /\ id \in DOMAIN accounts
    /\ \E id \in DOMAIN assumed : assumed[id] = "error" /\ id \notin DOMAIN accounts

\* C28: in organization mode the accounts are split into three disjoint
\* buckets, delete (toDelete true), add (not toDelete, no lastCrawled) and
\* update (not toDelete, lastCrawled present); the three mutations are all
\* attempted whichever of them fails, and no failure fails the crawl.
C28_ThreeBucketsSettledAll ==
    /\ apc # "failed"
    /\ (apc = "done" /\ isUsingOrganizations) =>
          LET toDelete == {id \in DOMAIN accounts : isTruthy(accounts[id], "toDelete")}
              toAdd == {id \in DOMAIN accounts \ toDelete : "lastCrawled" \notin DOMAIN accounts[id]
                                                           \/ accounts[id].lastCrawled = Nil}
              toUpdate == {id \in DOMAIN accounts \ toDelete : /\ "lastCrawled" \in DOMAIN accounts[id]
                                                              /\ accounts[id].lastCrawled # Nil}
          IN  /\ accountCalls.deleteAccounts = toDelete
              /\ DOMAIN accountCalls.addAccounts = toAdd
              /\ DOMAIN accountCalls.updateAccount = toUpdate
              /\ toAdd \cap toUpdate = {}
              /\ toDelete \cup toAdd \cup toUpdate = DOMAIN accounts

\* the add mutation was rejected; the delete mutation of the same crawl was
\* attempted and took an account out of the store
C28_Witness ==
    /\ apc = "done"
    /\ isUsingOrganizations
    /\ accountCalls.rejected = {"addAccounts"}
    /\ DOMAIN accountCalls.addAccounts # {}
    /\ \E id \in accountCalls.deleteAccounts : id \in DOMAIN dbAccounts /\ id \notin DOMAIN accountStore

\* C27 (as claimed): only a payload-too-large error makes the paginator halve
\* and replay; a resolver-code-size error ends the read without halving and
\* without a replay.
C27_ResolverCodeSizePropagates ==
    last.outcome = "resolverCodeSize" =>
        /\ pgState = "failed"
        /\ pageSize = last.end - last.start

\* C27 (amended): a payload-too-large error and a resolver-code-size error
\* both make the paginator halve the page and replay from the same start; any
\* other error ends the read with the window and the page size untouched.
C27_BothSizeErrorsHalve ==
    /\ last.outcome \in {"payloadTooLarge", "resolverCodeSize"} =>
          /\ pgState = "request"
          /\ start = last.start
          /\ pageSize = (last.end - last.start) \div 2
          /\ end = start + pageSize
    /\ last.outcome = "otherError" =>
          /\ pgState = "failed"
          /\ start = last.start
          /\ end = last.end
          /\ pageSize = last.end - last.start

\* the request for 0..1000 was rejected with the resolver-code-size error and
\* the generator is about to ask for 0..500
C27_Witness ==
    /\ last = [start |-> 0, end |-> PAGE_SIZE, outcome |-> "resolverCodeSize"]
    /\ pgState = "request"
    /\ start = 0
    /\ end = 500

\* C30: the windows of successive successful page reads are contiguous and
\* do not overlap: the first starts at 0 and each later one starts at the end
\* of the successful window before it.
C30_ContiguousWindows ==
    reads.count >= 1 =>
        /\ reads.count = 1 => reads.start = 0
        /\ reads.start = reads.prevEnd
        /\ reads.end >= reads.start

\* after 0..500 was read, 500..1500 was too large and 500..1000 was read
C30_Witness ==
    /\ reads = [count |-> 2, prevEnd |-> 500, start |-> 500, end |-> 1000]
    /\ pgState = "yielded"

\* C29: for every entry of resourcesToUpdate the properties of the payload
\* are exactly the keys of the resource's current projected properties whose
\* value differs from the value the stored copy has for the key (a key the
\* stored copy lacks differs), each with its current value; no key with a
\* value equal to the stored one is sent.
C29_UpdateSendsOnlyChangedProperties ==
    pc # "start" =>
        \A i \in 1..Len(deltas.resourcesToUpdate) :
            LET update == deltas.resourcesToUpdate[i]
                current == CHOOSE r \in Range(resources) : r.id = update.id
                dbProperties == dbResourcesMap[update.id].properties
            IN /\ DOMAIN update.properties \subseteq DOMAIN current.properties
               /\ \A k \in DOMAIN current.properties :
                     /\ k \in DOMAIN update.properties <=>
                           (k \notin DOMAIN dbProperties \/ dbProperties[k] # current.properties[k])
                     /\ k \in DOMAIN update.properties =>
                           update.properties[k] = current.properties[k]

\* an update that sends the changed capture time and a supplementary
\* configuration the stored copy lacks, and leaves out the unchanged title
C29_Witness ==
    /\ pc # "start"
    /\ \E i \in 1..Len(deltas.resourcesToUpdate) :
          LET update == deltas.resourcesToUpdate[i]
              dbProperties == dbResourcesMap[update.id].properties
          IN /\ DOMAIN update.properties = {"configurationItemCaptureTime", "supplementaryConfiguration"}
             /\ "configurationItemCaptureTime" \in DOMAIN dbProperties
             /\ "supplementaryConfiguration" \notin DOMAIN dbProperties
             /\ "title" \in DOMAIN dbProperties

\* the edges the working set gives: its links with a known target
discoveredLinks ==
    LET maps == createLookUpMaps(resources)
        links == flatLinks(resources, maps.resourceIdentifierToIdMap, maps.resourcesMap)
    IN {l \in Range(links) : l.target # UNKNOWN}

\* C23: when a crawl that follows another one observes the same discovered
\* resources and ends without any failure, the graph store holds exactly the
\* discovered resource ids and the discovered edges, whatever partial writes
\* the earlier crawl left.
C23_NextCrawlRepairs ==
    (pc = "done" /\ previous # <<>> /\ \A ph \in Phases : errors[ph] = {}) =>
        /\ DOMAIN graphStore = {r.id : r \in Range(resources)}
        /\ graphLinks = discoveredLinks

\* the earlier crawl failed to store a resource and to store a link, and the
\* crawl after it stored both
C23_Witness ==
    /\ pc = "done"
    /\ previous # <<>>
    /\ {"storeResources", "storeRelationships"} \subseteq previous[1]
    /\ \A ph \in Phases : errors[ph] = {}
    /\ deltas.resourcesToStore # <<>>
    /\ deltas.linksToAdd # <<>>

====
